---- MODULE Spec2Model ----
(***************************************************************************)
(* Model of visarchpy/pipelines/layout_ocr.py: the layout pass             *)
(* (extract_visuals_by_layout, and its inlined copy in pipeline()), the    *)
(* OCR pass (extract_visuals_by_ocr, and its inlined copy in pipeline()),  *)
(* and the drivers Layout.run and pipeline().                              *)
(*                                                                         *)
(* Text is a sequence of one-character strings, so that str.strip() and    *)
(* the keyword search are computed and not assumed.  Boxes are tuples      *)
(* <<x0, y0, x1, y1>>.  An optional value is the empty tuple (None) or a   *)
(* one-element tuple.                                                      *)
(***************************************************************************)
EXTENDS Integers, Sequences, FiniteSets, TLC

\* ------------------------------------------------------------------ bounds
MaxPdfs == 2       \* PDF files of the entry
MaxPages == 2      \* pages of the entry, all its PDFs together
MaxImgs == 2       \* image regions / OCR boxes reported for one page
MaxTexts == 2      \* text regions / OCR text boxes reported for one page
MaxRegions == 2    \* image regions and OCR boxes of the entry, together
MaxBoxes == 3        \* boxes handed to a filter of visarchpy.ocr
MaxFilterCalls == 2  \* filter calls made one after the other on them
MaxGap == 12         \* widest gap (and overlap) between an image and a text box
MaxOffset == 10      \* largest offset in the unit of the boxes

\* --------------------------------------------------------------- settings
\* layout_settings / ocr_settings: the values both entry points define.
LayoutOffset == <<4, "mm">>
OcrOffset == <<50, "px">>
CaptionDirection == "down"
Keywords ==
    { <<"f","i","g","u","r","e">>,
      <<"c","a","p","t","i","o","n">>,
      <<"f","i","g","u","u","r">> }
ImageMinWidth == 120
ImageMinHeight == 120
MaxAspect == 20
ZFillWidth == 3
Resolution == 250
Resize == 30000

\* the dictionary layout_settings of the module (pipeline() builds a local
\* one of the same values)
layout_settings ==
    [ caption |-> [ offset |-> LayoutOffset, direction |-> CaptionDirection,
                    keywords |-> Keywords ],
      image |-> [ width |-> ImageMinWidth, height |-> ImageMinHeight ] ]

\* the dictionary ocr_settings
ocr_settings ==
    [ caption |-> [ offset |-> OcrOffset, direction |-> CaptionDirection,
                    keywords |-> Keywords ],
      image |-> [ width |-> ImageMinWidth, height |-> ImageMinHeight ],
      resolution |-> Resolution, resize |-> Resize ]

\* a settings dictionary of a caller's own: one more caption keyword
CallerSettings ==
    [ layout_settings EXCEPT
        !.caption.keywords = @ \cup { <<"p","l","a","t","e">> } ]

\* ------------------------------------------------------------------- text
Whitespace == {" ", "\n"}

RECURSIVE LStrip(_)
LStrip(s) ==
    IF s # <<>> /\ Head(s) \in Whitespace THEN LStrip(Tail(s)) ELSE s

RECURSIVE RStrip(_)
RStrip(s) ==
    IF s # <<>> /\ s[Len(s)] \in Whitespace
    THEN RStrip(SubSeq(s, 1, Len(s) - 1))
    ELSE s

\* str.strip()
Strip(s) == RStrip(LStrip(s))

UpperToLower ==
    [c \in {"F","I","G","U","R","E","C","A","P","T","O","N"} |->
        CASE c = "F" -> "f" [] c = "I" -> "i" [] c = "G" -> "g"
          [] c = "U" -> "u" [] c = "R" -> "r" [] c = "E" -> "e"
          [] c = "C" -> "c" [] c = "A" -> "a" [] c = "P" -> "p"
          [] c = "T" -> "t" [] c = "O" -> "o" [] c = "N" -> "n"]

Lower(s) ==
    [i \in 1..Len(s) |->
        IF s[i] \in DOMAIN UpperToLower THEN UpperToLower[s[i]] ELSE s[i]]

Contains(s, kw) ==
    \E i \in 1..(Len(s) - Len(kw) + 1) : SubSeq(s, i, i + Len(kw) - 1) = kw

\* text_element.get_text(): the lines of a text region, concatenated raw
RECURSIVE GetText(_)
GetText(lines) ==
    IF lines = <<>> THEN <<>> ELSE Head(lines) \o GetText(Tail(lines))

\* a caption loop that does not strip the lines
RECURSIVE CaptionFromRawLines(_, _)
CaptionFromRawLines(lines, caption) ==
    IF lines = <<>> THEN caption
    ELSE CaptionFromRawLines(Tail(lines), caption \o Head(lines))

\* the caption loop of the layout pass:
\*     caption = ""
\*     for text_line in bbox_matches[0]: caption += text_line.get_text().strip()
RECURSIVE CaptionFromLines(_, _)
CaptionFromLines(lines, caption) ==
    IF lines = <<>> THEN caption
    ELSE CaptionFromLines(Tail(lines), caption \o Strip(Head(lines)))

\* ------------------------------------------------------- caption matching
\* find_caption_by_text on one candidate: the candidate when its text holds
\* a keyword (case-insensitive), None otherwise.
find_caption_by_text(text, keywords) ==
    IF \E kw \in keywords : Contains(Lower(GetText(text.lines)), kw)
    THEN <<text>>
    ELSE <<>>

\* gap between the nearest edges of the image box and the text box, taken
\* in the requested direction
DistanceInDirection(image_box, text_box, direction) ==
    CASE direction = "down"  -> text_box[2] - image_box[4]
      [] direction = "up"    -> image_box[2] - text_box[4]
      [] direction = "right" -> text_box[1] - image_box[3]
      [] direction = "left"  -> image_box[1] - text_box[3]

\* d <= offset, the offset converted to the unit of the boxes:
\* 1 mm = 72 / 25.4 pt, so d pt <= m mm  iff  254 d <= 720 m
WithinOffset(d, offset) ==
    IF offset[2] = "mm" THEN 254 * d <= 720 * offset[1] ELSE d <= offset[1]

find_caption_by_distance(image_box, text_box, offset, direction) ==
    LET d == DistanceInDirection(image_box, text_box, direction)
    IN  0 <= d /\ WithinOffset(d, offset)

\* the arguments find_caption_by_distance is called with on its own: a text
\* box of height or width TextExtent on one side of the image box
\* (100,100,200,200), gap away from its nearest edge (a negative gap is an
\* overlap), an offset and a direction.  side and gap say how the text box
\* was placed.
Directions == { "down", "up", "right", "left" }

GivenImageBox == <<100, 100, 200, 200>>

TextExtent == 15

TextBoxAt(side, gap) ==
    CASE side = "down"  -> <<100, 200 + gap, 200, 200 + gap + TextExtent>>
      [] side = "up"    -> <<100, 100 - gap - TextExtent, 200, 100 - gap>>
      [] side = "right" -> <<200 + gap, 100, 200 + gap + TextExtent, 200>>
      [] side = "left"  -> <<100 - gap - TextExtent, 100, 100 - gap, 200>>

Offsets ==
    { <<m, "px">> : m \in 0..MaxOffset } \cup { LayoutOffset, OcrOffset }

DistanceArgs ==
    { [ image_box |-> GivenImageBox, text_box |-> TextBoxAt(side, gap),
        offset |-> offset, direction |-> direction,
        side |-> side, gap |-> gap ] :
      side \in Directions, gap \in (0 - MaxGap)..MaxGap,
      offset \in Offsets, direction \in Directions }

\* ----------------------------------------------------- Visual and Metadata
\* Visual(document, document_page, bbox, bbox_units): no caption, no location
NewVisual(document, page_number, bbox, units) ==
    [ document |-> document, document_page |-> page_number, bbox |-> bbox,
      bbox_units |-> units, caption |-> <<>>, location |-> <<>> ]

\* Visual.set_caption: sets the caption of a Visual that has none; on a
\* Visual that has one it raises the conflict (a Warning) and changes nothing
set_caption(v, caption) ==
    IF v.caption = <<>>
    THEN [ visual |-> [v EXCEPT !.caption = <<caption>>], raised |-> FALSE ]
    ELSE [ visual |-> v, raised |-> TRUE ]

set_location(v, location) == [v EXCEPT !.location = <<location>>]

EmptyMetadata == [ documents |-> <<>>, visuals |-> <<>> ]

add_document(m, document) ==
    [m EXCEPT !.documents = Append(@, document)]

add_visual(m, v) == [m EXCEPT !.visuals = Append(@, v)]

\* 'pdf-' + str(pdf_document_counter).zfill(3)
RECURSIVE Digits(_)
Digits(n) == IF n < 10 THEN <<n>> ELSE Append(Digits(n \div 10), n % 10)

RECURSIVE ZFill(_, _)
ZFill(ds, width) == IF Len(ds) >= width THEN ds ELSE ZFill(<<0>> \o ds, width)

PdfFileDir(counter) == <<"pdf-">> \o ZFill(Digits(counter), ZFillWidth)

\* ------------------------------------------------------------- the inputs
\* Increasing index sequences of length <= k over 1..n: the sub-sequences
\* of a catalogue, in catalogue order.
IncSeqs(n, k) ==
    UNION { { s \in [1..m -> 1..n] : \A i \in 1..m : \A j \in 1..m :
                                        i < j => s[i] < s[j] } : m \in 0..k }

SubSeqsOf(cat, k) ==
    { [i \in 1..Len(idx) |-> cat[idx[i]]] : idx \in IncSeqs(Len(cat), k) }

\* Sequences of length <= k of distinct elements of S: the text regions of a
\* page in any reading order, no region twice.
SeqsUpTo(S, k) ==
    UNION { { s \in [1..m -> S] : \A i \in 1..m : \A j \in 1..m :
                                      i # j => s[i] # s[j] } : m \in 0..k }

Min(a, b) == IF a < b THEN a ELSE b

\* image regions of a page (LTImage: a name and a bbox in pt)
ImageCatalogue ==
    << [ name |-> "Im0", bbox |-> <<100, 100, 200, 200>> ],
       [ name |-> "Im1", bbox |-> <<100, 300, 200, 400>> ],
       [ name |-> "Im2", bbox |-> <<300, 100, 400, 200>> ],
       [ name |-> "Im3", bbox |-> <<300, 300, 400, 400>> ] >>

TxtFigure == << <<" ","F","i","g","u","r","e"," ","1","\n">> >>
TxtPlain == << <<"a"," ","\n">>, <<" ","b","\n">> >>

\* text regions of a page (LTTextContainer: a bbox in pt and its text lines)
TextRegions ==
    { [ bbox |-> <<100, 205, 200, 220>>, lines |-> TxtFigure ],
      [ bbox |-> <<100, 210, 200, 225>>, lines |-> TxtPlain ],
      [ bbox |-> <<100, 250, 200, 260>>, lines |-> TxtFigure ] }

\* the failures of ImageWriter.export_image the layout pass handles
ExportFailures ==
    { "ValueError", "UnboundLocalError", "PDFNotImplementedError",
      "UnidentifiedImageError", "IndexError", "KeyError", "TypeError" }

\* the failures of page sorting the layout pass handles
ParseFailures == { "PDFSyntaxError", "AssertionError", "TypeError" }

\* boxes the OCR engine reports as image-like (px), keyed by a generated id
OcrBoxCatalogue ==
    << [ id |-> "b1", box |-> <<0, 0, 200, 200>> ],
       [ id |-> "b2", box |-> <<10, 10, 150, 150>> ],
       [ id |-> "b3", box |-> <<300, 0, 500, 200>> ],
       [ id |-> "b4", box |-> <<0, 300, 2500, 420>> ] >>

\* boxes handed to the filters of visarchpy.ocr on their own (px): f1 and f3
\* are 20 times as wide as high, f2 is wider than that, f8 is more than 20
\* times as high as wide; f6 contains f4, which contains f5; f7 has the
\* extent of f5; f3 touches the border of f6 from inside
FilterBoxCatalogue ==
    << [ id |-> "f1", box |-> <<0, 0, 2400, 120>> ],
       [ id |-> "f2", box |-> <<0, 0, 2401, 120>> ],
       [ id |-> "f3", box |-> <<0, 0, 100, 5>> ],
       [ id |-> "f4", box |-> <<0, 0, 50, 50>> ],
       [ id |-> "f5", box |-> <<10, 10, 30, 30>> ],
       [ id |-> "f6", box |-> <<0, 0, 100, 100>> ],
       [ id |-> "f7", box |-> <<10, 10, 30, 30>> ],
       [ id |-> "f8", box |-> <<0, 0, 5, 101>> ] >>

\* boxes the OCR engine reports as text-like (px)
OcrTextCatalogue ==
    << [ id |-> "t1", box |-> <<0, 210, 200, 240>> ],
       [ id |-> "t2", box |-> <<0, 230, 200, 260>> ],
       [ id |-> "t3", box |-> <<0, 400, 200, 430>> ] >>

\* what ocr.region_to_string may recognise in a region
OcrStrings == { <<>>, <<"x">>, <<"y">> }

\* ------------------------------------------------------------ box filters
Width(b) == b[3] - b[1]
Height(b) == b[4] - b[2]

\* ocr.filter_bbox_by_size: drops a box narrower than min_width, lower than
\* min_height, or whose width/height compares to the ratio num/den as the
\* operator says.  A parameter that is not given is <<>>.
DroppedBySize(b, min_width, min_height, aspect_ratio) ==
    \/ min_width # <<>> /\ Width(b) < min_width[1]
    \/ min_height # <<>> /\ Height(b) < min_height[1]
    \/ /\ aspect_ratio # <<>>
       /\ aspect_ratio[3] = ">"
       /\ Width(b) * aspect_ratio[2] > aspect_ratio[1] * Height(b)
    \/ /\ aspect_ratio # <<>>
       /\ aspect_ratio[3] = "<"
       /\ Width(b) * aspect_ratio[2] < aspect_ratio[1] * Height(b)

filter_bbox_by_size(boxes, min_width, min_height, aspect_ratio) ==
    LET Kept(e) == ~DroppedBySize(e.box, min_width, min_height, aspect_ratio)
    IN  SelectSeq(boxes, Kept)

BoxContains(a, b) ==
    a[1] <= b[1] /\ a[2] <= b[2] /\ b[3] <= a[3] /\ b[4] <= a[4]

IdRank(id) ==
    LET known == OcrBoxCatalogue \o FilterBoxCatalogue
    IN  CHOOSE i \in 1..Len(known) : known[i].id = id

\* ocr.filter_bbox_contained: drops a box contained by another box of the
\* set; of two boxes of the same extent the one with the smaller id stays
filter_bbox_contained(boxes) ==
    LET Kept(e) ==
            ~\E i \in 1..Len(boxes) :
                /\ boxes[i].id # e.id
                /\ BoxContains(boxes[i].box, e.box)
                /\ (boxes[i].box # e.box \/ IdRank(boxes[i].id) < IdRank(e.id))
    IN  SelectSeq(boxes, Kept)

\* filter calls that drop nothing
BboxesHistoryUnfiltered(bboxes) == << bboxes, bboxes, bboxes, bboxes, bboxes >>

\* the filter calls in another order: containment first
BboxesHistoryContainedFirst(bboxes) ==
    LET filtered_contained == filter_bbox_contained(bboxes)
        filtered_width_height ==
            filter_bbox_by_size(filtered_contained, <<ImageMinWidth>>,
                                <<ImageMinHeight>>, <<>>)
        filtered_ratio_max ==
            filter_bbox_by_size(filtered_width_height, <<>>, <<>>,
                                <<MaxAspect, 1, ">">>)
        filtered_ratio_min ==
            filter_bbox_by_size(filtered_ratio_max, <<>>, <<>>,
                                <<1, MaxAspect, "<">>)
    IN  << bboxes, filtered_contained, filtered_width_height,
           filtered_ratio_max, filtered_ratio_min >>

\* the four filter calls of the OCR pass, each fed the result of the one
\* before: the boxes reported and what each call assigns to
\* ocr_results[page_id]["bboxes"]
BboxesHistory(bboxes) ==
    LET filtered_width_height ==
            filter_bbox_by_size(bboxes, <<ImageMinWidth>>, <<ImageMinHeight>>, <<>>)
        filtered_ratio_max ==
            filter_bbox_by_size(filtered_width_height, <<>>, <<>>,
                                <<MaxAspect, 1, ">">>)
        filtered_ratio_min ==
            filter_bbox_by_size(filtered_ratio_max, <<>>, <<>>,
                                <<1, MaxAspect, "<">>)
        filtered_contained == filter_bbox_contained(filtered_ratio_min)
    IN  << bboxes, filtered_width_height, filtered_ratio_max,
           filtered_ratio_min, filtered_contained >>

\* ocr_results[page_id]["bboxes"] after the last filter call
FilterOcrBoxes(bboxes) == BboxesHistory(bboxes)[5]

\* ------------------------------------------------------------------ state
VARIABLES
    mode,                 \* the entry point that runs
    settings,             \* Pipeline.settings: "None", "given" (an object
                          \* equal to the module's layout_settings) or
                          \* "custom" (an object of the caller's own)
    num_pdfs,             \* len(PDF_FILES)
    args,                 \* the arguments of a function called on its own
    pc,                   \* position in the code
    exception,            \* the exception that left the entry point, or "none"
    pdf_index,            \* PDFs taken from PDF_FILES so far
    pdf_document_counter,
    pdf_file_dir,
    doc,                  \* the current PDF: its pages and where parsing fails
    pages,
    elements,             \* whether the name `elements` of the sorting loop
                          \* is bound
    no_image_pages,
    page_index,           \* position of the layout loop in pages
    texts,                \* page["texts"] of the page the layout loop is at
    image_index,          \* position of the loop over page["images"]
    visual,               \* the Visual being built, <<>> before the first
    bbox_matches,
    metadata,
    log,                  \* warnings and errors written to the logger
    exported,             \* image files written to the output directory
    pdf_pages,            \* the pages the OCR loop runs over
    ocr_index,            \* position of the OCR loop in pdf_pages
    page_image,           \* the page rasters held by the OCR loop
    ocr_results,
    bboxes_history,       \* the values ocr_results[page_id]["bboxes"] has taken
                          \* on the page the OCR loop is at: the boxes reported,
                          \* then the result of each filter; for the filters
                          \* on their own, each value with the call it is from
    bbox_index,           \* position of the loop over the filtered boxes
    match_index,          \* position of the loop over bbox_matches (OCR)
    ocr_pages_done,       \* <<document, page_number>> of every OCR call
    regions_drawn,        \* image regions and OCR boxes taken up so far
    pages_drawn,          \* pages of the PDFs opened so far
    saved,                \* files written at the end of the run
    settings_file,        \* what json.dump wrote to settings.json
    created,              \* the entry directory, the log file and the image
                          \* directories created in the output directory
    image_pages,          \* the image_pages argument of extract_visuals_by_ocr
    ocr_captions,         \* what region_to_string returned for the matches
                          \* of the current box, in order
    set_caption_calls,    \* calls of set_caption on the current Visual
    layout_image_pages,   \* <<document, page_number>> of every page whose
                          \* layout pass found an image region
    region_id,            \* <<document, page_number, name>> of the region
                          \* the current Visual is made for
    regions_seen          \* the image regions the layout pass has taken up

vars ==
    << mode, settings, num_pdfs, args, pc, exception, pdf_index,
       pdf_document_counter, pdf_file_dir, doc, pages, elements,
       no_image_pages, page_index, texts, image_index, visual, bbox_matches, metadata, log,
       exported, pdf_pages, ocr_index, page_image, ocr_results, bboxes_history, bbox_index,
       match_index, ocr_pages_done, regions_drawn, pages_drawn, saved,
       settings_file, created, image_pages, ocr_captions, set_caption_calls, layout_image_pages,
       region_id, regions_seen >>

layoutVars ==
    << pages, no_image_pages, page_index, texts, image_index >>

ocrVars ==
    << pdf_pages, ocr_index, page_image, ocr_results, bboxes_history, bbox_index,
       match_index, ocr_pages_done, image_pages, ocr_captions >>

ghostVars == << set_caption_calls, layout_image_pages >>

regionVars == << region_id, regions_seen >>

inputVars == << mode, settings, num_pdfs, args >>

budgetVars == << regions_drawn, pages_drawn >>

Modes == { "pipeline", "layout_run", "layout_then_ocr", "filters", "distance" }

Init ==
    /\ mode \in Modes
    /\ settings \in (IF mode = "layout_run" THEN {"None", "given", "custom"}
                     ELSE {"given"})
    /\ num_pdfs \in (IF mode = "layout_then_ocr" THEN {1}
                     ELSE IF mode \in { "filters", "distance" } THEN {0}
                     ELSE 0..Min(MaxPdfs, MaxPages))
    /\ args \in (IF mode = "distance" THEN DistanceArgs ELSE { <<>> })
    /\ pc = (CASE mode = "filters" -> "boxes"
             [] mode = "distance" -> "call"
             [] OTHER -> "start")
    /\ exception = "none"
    /\ pdf_index = 0
    /\ pdf_document_counter = 0
    /\ pdf_file_dir = <<>>
    /\ doc = [ npages |-> 0, fail_at |-> 0 ]
    /\ pages = <<>>
    /\ elements = "unbound"
    /\ no_image_pages = <<>>
    /\ page_index = 0
    /\ texts = <<>>
    /\ image_index = 0
    /\ visual = <<>>
    /\ bbox_matches = <<>>
    /\ metadata = EmptyMetadata
    /\ log = <<>>
    /\ exported = {}
    /\ pdf_pages = <<>>
    /\ ocr_index = 0
    /\ page_image = <<>>
    /\ ocr_results = <<>>
    /\ bboxes_history \in
          (IF mode = "filters"
           THEN { << [ call |-> "given", boxes |-> boxes ] >> :
                      boxes \in SubSeqsOf(FilterBoxCatalogue, MaxBoxes) }
           ELSE { <<>> })
    /\ bbox_index = 0
    /\ match_index = 0
    /\ ocr_pages_done = {}
    /\ regions_drawn = 0
    /\ pages_drawn = 0
    /\ saved = <<>>
    /\ settings_file = <<>>
    /\ created = {}
    /\ image_pages = <<>>
    /\ ocr_captions = <<>>
    /\ set_caption_calls = 0
    /\ layout_image_pages = {}
    /\ region_id = <<>>
    /\ regions_seen = {}

\* the layout_settings argument of extract_visuals_by_layout: self.settings
\* in Layout.run, the local dictionary in pipeline()
SettingsUsed ==
    IF settings = "custom" THEN CallerSettings ELSE layout_settings

\* ---------------------------------------------------------- entry points
\* create_output_dir(OUTPUT_DIR, entry_id) and the log file of the entry
OutputDirAndLog == { <<"entry_directory">>, <<"log_file">> }

\* a Layout.run that looks at its settings after the output directory and
\* the log were made
LayoutRunStartLateCheck ==
    /\ pc = "start"
    /\ mode # "pipeline"
    /\ created' = OutputDirAndLog
    /\ IF settings = "None"
       THEN /\ pc' = "raised"
            /\ exception' = "ValueError"
            /\ UNCHANGED pdf_document_counter
       ELSE /\ pc' = "pdf_loop"
            /\ pdf_document_counter' = 1
            /\ UNCHANGED exception
    /\ UNCHANGED << inputVars, elements, pdf_index, pdf_file_dir, doc, layoutVars, visual,
                    bbox_matches, metadata, log, exported, ocrVars,
                    budgetVars, saved, settings_file, ghostVars, regionVars >>

\* Layout.run up to the loop over PDF_FILES: without settings it raises
\* ValueError before anything else is done
LayoutRunStart ==
    /\ pc = "start"
    /\ mode # "pipeline"
    /\ IF settings = "None"
       THEN /\ pc' = "raised"
            /\ exception' = "ValueError"
            /\ UNCHANGED << pdf_document_counter, created >>
       ELSE /\ pc' = "pdf_loop"
            /\ pdf_document_counter' = 1
            /\ created' = OutputDirAndLog
            /\ UNCHANGED exception
    /\ UNCHANGED << inputVars, elements, pdf_index, pdf_file_dir, doc, layoutVars, visual,
                    bbox_matches, metadata, log, exported, ocrVars,
                    budgetVars, saved, settings_file, ghostVars, regionVars >>

\* pipeline() up to the loop over PDF_FILES
PipelineStart ==
    /\ pc = "start"
    /\ mode = "pipeline"
    /\ pc' = "pdf_loop"
    /\ pdf_document_counter' = 1
    /\ created' = OutputDirAndLog
    /\ UNCHANGED << inputVars, elements, exception, pdf_index, pdf_file_dir, doc,
                    layoutVars, visual, bbox_matches, metadata, log, exported,
                    ocrVars, budgetVars, saved, settings_file, ghostVars, regionVars >>

\* the PDF files the run may meet: a page count (extract_pages may yield
\* no page at all) and the page at which sorting fails (0: nowhere); `left`
\* is what the run's page budget leaves for this file, one page kept for
\* each file still to come
Documents(left) ==
    { d \in [ npages : 0..left, fail_at : 0..left ] : d.fail_at <= d.npages }

PagesLeft == MaxPages - pages_drawn - (num_pdfs - pdf_index - 1)

\* a start of extract_visuals_by_layout that adds no Document
LayoutRunNextPdfNoDocument ==
    /\ pc = "pdf_loop"
    /\ mode # "pipeline"
    /\ pdf_index < num_pdfs
    /\ pdf_index' = pdf_index + 1
    /\ pdf_file_dir' = PdfFileDir(pdf_document_counter)
    /\ created' = created \cup {PdfFileDir(pdf_document_counter)}
    /\ doc' \in Documents(PagesLeft)
    /\ pages_drawn' = pages_drawn + doc'.npages
    /\ pages' = <<>>
    /\ elements' = "unbound"
    /\ no_image_pages' = <<>>
    /\ pc' = "sort"
    /\ UNCHANGED << inputVars, metadata, exception, pdf_document_counter, page_index,
                    texts, image_index, visual, bbox_matches, log, exported,
                    ocrVars, regions_drawn, saved, settings_file, ghostVars, regionVars >>

\* Layout.run: `for pdf in PDF_FILES`, up to the page sorting of
\* extract_visuals_by_layout (the Document is added first)
LayoutRunNextPdf ==
    /\ pc = "pdf_loop"
    /\ mode # "pipeline"
    /\ pdf_index < num_pdfs
    /\ pdf_index' = pdf_index + 1
    /\ pdf_file_dir' = PdfFileDir(pdf_document_counter)
    /\ created' = created \cup {PdfFileDir(pdf_document_counter)}
    /\ metadata' = add_document(metadata, pdf_index + 1)
    /\ doc' \in Documents(PagesLeft)
    /\ pages_drawn' = pages_drawn + doc'.npages
    /\ pages' = <<>>
    /\ elements' = "unbound"
    /\ no_image_pages' = <<>>
    /\ pc' = "sort"
    /\ UNCHANGED << inputVars, exception, pdf_document_counter, page_index,
                    texts, image_index, visual, bbox_matches, log, exported,
                    ocrVars, regions_drawn, saved, settings_file, ghostVars, regionVars >>

\* pipeline(): `for pdf in PDF_FILES`, up to the page sorting.  The counter
\* is incremented before pdf_file_dir is computed for the second time.
PipelineNextPdf ==
    /\ pc = "pdf_loop"
    /\ mode = "pipeline"
    /\ pdf_index < num_pdfs
    /\ pdf_index' = pdf_index + 1
    /\ pdf_document_counter' = pdf_document_counter + 1
    /\ pdf_file_dir' = PdfFileDir(pdf_document_counter + 1)
    /\ created' = created \cup {PdfFileDir(pdf_document_counter + 1)}
    /\ metadata' = add_document(metadata, pdf_index + 1)
    /\ doc' \in Documents(PagesLeft)
    /\ pages_drawn' = pages_drawn + doc'.npages
    /\ pages' = <<>>
    /\ no_image_pages' = <<>>
    /\ pc' = "sort"
    /\ UNCHANGED << inputVars, elements, exception, page_index, texts, image_index,
                    visual, bbox_matches, log, exported, ocrVars,
                    regions_drawn, saved, settings_file, ghostVars, regionVars >>

\* ------------------------------------------------------------ page sorting
\* one iteration of `for page in pdf_pages: pages.append(sort_layout_elements(page))`
SortPage ==
    /\ pc = "sort"
    /\ Len(pages) < doc.npages
    /\ doc.fail_at # Len(pages) + 1
    /\ \E n \in 0..Min(MaxImgs, MaxRegions - regions_drawn) :
        /\ pages' = Append(pages, [ page_number |-> Len(pages) + 1,
                                    images |-> SubSeq(ImageCatalogue, 1, n) ])
        /\ regions_drawn' = regions_drawn + n
    /\ elements' = "bound"
    /\ UNCHANGED << inputVars, pc, exception, pdf_index, pdf_document_counter,
                    pdf_file_dir, doc, no_image_pages, page_index, texts,
                    image_index, visual, bbox_matches, metadata, log, exported,
                    ocrVars, saved, settings_file, created, ghostVars, pages_drawn, regionVars >>

\* a sorting loop without except clauses: the failure leaves the function
SortFailEscapes ==
    /\ pc = "sort"
    /\ doc.fail_at = Len(pages) + 1
    /\ \E kind \in ParseFailures : exception' = kind
    /\ pc' = "raised"
    /\ UNCHANGED << inputVars, elements, pdf_index, pdf_document_counter,
                    pdf_file_dir, doc, layoutVars, visual, bbox_matches,
                    metadata, log, exported, ocrVars, budgetVars, saved, settings_file, created,
                    ghostVars, regionVars >>

\* except clauses that pass the page that failed on to the OCR pass
SortFailPassesPage ==
    /\ pc = "sort"
    /\ doc.fail_at = Len(pages) + 1
    /\ \E kind \in ParseFailures :
        log' = Append(log, [ level |-> "error", about |-> "parse",
                             subject |-> <<pdf_index>> ])
    /\ no_image_pages' = Append(no_image_pages,
                                [ page_number |-> doc.fail_at,
                                  images |-> <<>> ])
    /\ page_index' = 1
    /\ pc' = "layout"
    /\ UNCHANGED << inputVars, elements, exception, pdf_index, pdf_document_counter,
                    pdf_file_dir, doc, pages, texts,
                    image_index, visual, bbox_matches, metadata, exported,
                    ocrVars, budgetVars, saved, settings_file, created, ghostVars, regionVars >>

\* the three except clauses of the sorting loop: the error is logged and the
\* function goes on with the pages sorted so far
SortFail ==
    /\ pc = "sort"
    /\ doc.fail_at = Len(pages) + 1
    /\ \E kind \in ParseFailures :
        log' = Append(log, [ level |-> "error", about |-> "parse",
                             subject |-> <<pdf_index>> ])
    /\ page_index' = 1
    /\ pc' = "layout"
    /\ UNCHANGED << inputVars, elements, exception, pdf_index, pdf_document_counter,
                    pdf_file_dir, doc, pages, no_image_pages, texts,
                    image_index, visual, bbox_matches, metadata, exported,
                    ocrVars, budgetVars, saved, settings_file, created, ghostVars, regionVars >>

\* the else clause of the sorting loop: `del elements`.  The name is bound
\* by the loop body only: when it is not bound the del raises
\* UnboundLocalError, which no except clause is there for.
SortDone ==
    /\ pc = "sort"
    /\ Len(pages) = doc.npages
    /\ doc.fail_at = 0
    /\ IF elements = "bound"
       THEN /\ elements' = "unbound"
            /\ page_index' = 1
            /\ pc' = "layout"
            /\ UNCHANGED exception
       ELSE /\ pc' = "raised"
            /\ exception' = "UnboundLocalError"
            /\ UNCHANGED << elements, page_index >>
    /\ UNCHANGED << inputVars, pdf_index, pdf_document_counter,
                    pdf_file_dir, doc, pages, no_image_pages, texts,
                    image_index, visual, bbox_matches, metadata, log, exported,
                    ocrVars, budgetVars, saved, settings_file, created, ghostVars, regionVars >>

\* ------------------------------------------------------- the layout pass
\* the loop over bbox_matches of the multi-match branch:
\*     for _text in bbox_matches: text_match = find_caption_by_text(_text, ...)
\* text_match is what the call returned for the last element
RECURSIVE TextMatchLoop(_, _)
TextMatchLoop(matches, text_match) ==
    IF matches = <<>> THEN text_match
    ELSE TextMatchLoop(Tail(matches),
                       find_caption_by_text(Head(matches),
                                            SettingsUsed.caption.keywords))

\* the text regions of the page that distance-match the image, in page order
LayoutMatches(img, page_texts) ==
    LET Matched(t) ==
            find_caption_by_distance(img.bbox, t.bbox,
                                     SettingsUsed.caption.offset,
                                     SettingsUsed.caption.direction)
    IN  SelectSeq(page_texts, Matched)

\* a captioning whose multi-match branch takes the text of the match that
\* won the keyword check
LayoutCaptionOfKeywordMatch(v, matches) ==
    IF Len(matches) = 0
    THEN [ visual |-> v, raised |-> FALSE, warned |-> FALSE, calls |-> 0 ]
    ELSE IF Len(matches) = 1
    THEN LET r == set_caption(v, CaptionFromLines(matches[1].lines, <<>>))
         IN  [ visual |-> r.visual, raised |-> r.raised, warned |-> FALSE,
               calls |-> 1 ]
    ELSE IF TextMatchLoop(matches, <<>>) # <<>>
    THEN LET text_match == TextMatchLoop(matches, <<>>)[1]
             r == set_caption(v, CaptionFromLines(text_match.lines, <<>>))
         IN  [ visual |-> r.visual, raised |-> FALSE, warned |-> r.raised,
               calls |-> 1 ]
    ELSE [ visual |-> v, raised |-> FALSE, warned |-> FALSE, calls |-> 0 ]

\* a captioning whose single-match branch sets the caption a second time
LayoutCaptionTwice(v, matches) ==
    IF Len(matches) = 0
    THEN [ visual |-> v, raised |-> FALSE, warned |-> FALSE, calls |-> 0 ]
    ELSE IF Len(matches) = 1
    THEN LET first == set_caption(v, CaptionFromLines(matches[1].lines, <<>>))
             r == set_caption(first.visual,
                              CaptionFromLines(matches[1].lines, <<>>))
         IN  [ visual |-> r.visual, raised |-> r.raised, warned |-> FALSE,
               calls |-> 2 ]
    ELSE IF TextMatchLoop(matches, <<>>) # <<>>
    THEN LET r == set_caption(v, CaptionFromLines(matches[1].lines, <<>>))
         IN  [ visual |-> r.visual, raised |-> FALSE, warned |-> r.raised,
               calls |-> 1 ]
    ELSE [ visual |-> v, raised |-> FALSE, warned |-> FALSE, calls |-> 0 ]

\* a captioning that calls set_caption whatever the number of matches
LayoutCaptionAlways(v, matches) ==
    LET text == IF matches = <<>> THEN <<>> ELSE matches[1].lines
        r == set_caption(v, CaptionFromLines(text, <<>>))
    IN  [ visual |-> r.visual, raised |-> FALSE, warned |-> r.raised,
          calls |-> 1 ]

\* the zero / one / multi-match branches.  raised: a conflict left the
\* function (the one-match call is not guarded); warned: a conflict was
\* caught and logged.
LayoutCaption(v, matches) ==
    IF Len(matches) = 0
    THEN [ visual |-> v, raised |-> FALSE, warned |-> FALSE, calls |-> 0 ]
    ELSE IF Len(matches) = 1
    THEN LET r == set_caption(v, CaptionFromLines(matches[1].lines, <<>>))
         IN  [ visual |-> r.visual, raised |-> r.raised, warned |-> FALSE,
               calls |-> 1 ]
    ELSE IF TextMatchLoop(matches, <<>>) # <<>>
    THEN LET r == set_caption(v, CaptionFromLines(matches[1].lines, <<>>))
         IN  [ visual |-> r.visual, raised |-> FALSE, warned |-> r.raised,
               calls |-> 1 ]
    ELSE [ visual |-> v, raised |-> FALSE, warned |-> FALSE, calls |-> 0 ]

\* a collection that takes every page, with or without image regions
CollectEveryPage(collected, page) == Append(collected, page)

\*     if page["images"] == []: no_image_pages.append(page)
CollectNoImagePage(collected, page) ==
    IF page.images = <<>> THEN Append(collected, page) ELSE collected

CurrentPage == pages[page_index]
CurrentImage == CurrentPage.images[image_index]

\* top of `for page in pages`: a page without images goes to no_image_pages
\* and its loop over images is empty
LayoutPage ==
    /\ pc = "layout"
    /\ page_index <= Len(pages)
    /\ visual' = <<>>
    /\ region_id' = <<>>
    /\ bbox_matches' = <<>>
    /\ set_caption_calls' = 0
    /\ IF CurrentPage.images = <<>>
       THEN /\ page_index' = page_index + 1
            /\ texts' = <<>>
            /\ UNCHANGED << pc, image_index >>
       ELSE /\ texts' \in SeqsUpTo(TextRegions, MaxTexts)
            /\ image_index' = 1
            /\ pc' = "region"
            /\ UNCHANGED page_index
    /\ no_image_pages' = CollectNoImagePage(no_image_pages, CurrentPage)
    /\ layout_image_pages' =
            IF CurrentPage.images = <<>> THEN layout_image_pages
            ELSE layout_image_pages \cup {<<pdf_index, CurrentPage.page_number>>}
    /\ UNCHANGED << inputVars, elements, exception, pdf_index, pdf_document_counter,
                    pdf_file_dir, doc, pages, metadata, log, exported, ocrVars,
                    budgetVars, saved, settings_file, created, regions_seen >>

\* top of `for img in page["images"]`, up to the renaming of the image: the
\* Visual is created, the matches are collected and the caption is set
LayoutRegion ==
    /\ pc = "region"
    /\ LET matches == LayoutMatches(CurrentImage, texts)
           r == LayoutCaption(NewVisual(pdf_index, CurrentPage.page_number,
                                        CurrentImage.bbox, "pt"), matches)
       IN  /\ bbox_matches' = matches
           /\ visual' = r.visual
           /\ region_id' = <<pdf_index, CurrentPage.page_number,
                             CurrentImage.name>>
           /\ regions_seen' = regions_seen \cup
                 {<<pdf_index, CurrentPage.page_number, CurrentImage.name>>}
           /\ set_caption_calls' = r.calls
           /\ log' = IF r.warned
                     THEN Append(log, [ level |-> "warning", about |-> "caption",
                                        subject |-> <<pdf_index,
                                                      CurrentPage.page_number,
                                                      CurrentImage.name>> ])
                     ELSE log
           /\ pc' = IF r.raised THEN "raised" ELSE "export"
           /\ exception' = IF r.raised THEN "Warning" ELSE exception
    /\ UNCHANGED << inputVars, elements, pdf_index, pdf_document_counter, pdf_file_dir,
                    doc, layoutVars, metadata, exported, ocrVars,
                    budgetVars, saved, settings_file, created, layout_image_pages >>

\* the file the layout pass exports an image to
LayoutFile(dir, page_number, name) ==
    [ dir |-> dir, file |-> <<"page", page_number, name>> ]

\* end of one iteration of `for img in page["images"]`
NextImage ==
    IF image_index < Len(CurrentPage.images)
    THEN /\ image_index' = image_index + 1
         /\ pc' = "region"
         /\ UNCHANGED page_index
    ELSE /\ page_index' = page_index + 1
         /\ pc' = "layout"
         /\ UNCHANGED image_index

\* iw.export_image(img) returned: the else clause sets the location and
\* adds the Visual
ExportOk ==
    /\ pc = "export"
    /\ LET file == LayoutFile(pdf_file_dir, CurrentPage.page_number,
                              CurrentImage.name)
       IN  /\ exported' = exported \cup {file}
           /\ visual' = set_location(visual, file)
           /\ metadata' = add_visual(metadata, set_location(visual, file))
    /\ NextImage
    /\ UNCHANGED << inputVars, elements, exception, pdf_index, pdf_document_counter,
                    pdf_file_dir, doc, pages, no_image_pages, texts,
                    bbox_matches, log, ocrVars, budgetVars, saved, settings_file, created, ghostVars, regionVars >>

\* a failed export after which the Visual is added all the same
ExportFailAddsVisual ==
    /\ pc = "export"
    /\ \E kind \in ExportFailures :
        log' = Append(log, [ level |-> "warning", about |-> "export",
                             subject |-> region_id ])
    /\ metadata' = add_visual(metadata, visual)
    /\ NextImage
    /\ UNCHANGED << inputVars, elements, exception, pdf_index, pdf_document_counter,
                    pdf_file_dir, doc, pages, no_image_pages, texts, visual,
                    bbox_matches, exported, ocrVars, budgetVars,
                    saved, settings_file, created, ghostVars, regionVars >>

\* except clauses that hand the page of a failed export to the OCR pass
ExportFailPassesPage ==
    /\ pc = "export"
    /\ \E kind \in ExportFailures :
        log' = Append(log, [ level |-> "warning", about |-> "export",
                             subject |-> region_id ])
    /\ no_image_pages' = Append(no_image_pages, CurrentPage)
    /\ NextImage
    /\ UNCHANGED << inputVars, elements, exception, pdf_index,
                    pdf_document_counter, pdf_file_dir, doc, pages, texts,
                    visual, bbox_matches, metadata, exported, ocrVars,
                    budgetVars, saved, settings_file, created, ghostVars, regionVars >>

\* iw.export_image(img) raised one of the failures the pass handles: each
\* except clause logs one warning
ExportFail ==
    /\ pc = "export"
    /\ \E kind \in ExportFailures :
        log' = Append(log, [ level |-> "warning", about |-> "export",
                             subject |-> region_id ])
    /\ NextImage
    /\ UNCHANGED << inputVars, elements, exception, pdf_index, pdf_document_counter,
                    pdf_file_dir, doc, pages, no_image_pages, texts, visual,
                    bbox_matches, metadata, exported, ocrVars, budgetVars,
                    saved, settings_file, created, ghostVars, regionVars >>

\* --------------------------------------------------- after the layout loop
\* pipeline(): the counter is incremented once more, the pages are freed
\* and the OCR loop starts over no_image_pages
PipelineLayoutDone ==
    /\ pc = "layout"
    /\ page_index > Len(pages)
    /\ mode = "pipeline"
    /\ pdf_document_counter' = pdf_document_counter + 1
    /\ pages' = <<>>
    /\ texts' = <<>>
    /\ visual' = <<>>
    /\ region_id' = <<>>
    /\ bbox_matches' = <<>>
    /\ set_caption_calls' = 0
    /\ pdf_pages' = no_image_pages
    /\ ocr_index' = 1
    /\ pc' = "ocr"
    /\ UNCHANGED << inputVars, elements, exception, pdf_index, pdf_file_dir, doc,
                    no_image_pages, page_index, image_index, metadata, log,
                    exported, page_image, ocr_results, bboxes_history, bbox_index,
                    match_index, ocr_pages_done, image_pages, ocr_captions,
                    budgetVars, saved, settings_file, created, layout_image_pages, regions_seen >>

\* extract_visuals_by_layout returns to Layout.run, which counts the PDF
LayoutRunReturn ==
    /\ pc = "layout"
    /\ page_index > Len(pages)
    /\ mode = "layout_run"
    /\ pdf_document_counter' = pdf_document_counter + 1
    /\ pages' = <<>>
    /\ texts' = <<>>
    /\ visual' = <<>>
    /\ region_id' = <<>>
    /\ bbox_matches' = <<>>
    /\ set_caption_calls' = 0
    /\ pc' = "pdf_loop"
    /\ UNCHANGED << inputVars, elements, exception, pdf_index, pdf_file_dir, doc,
                    no_image_pages, page_index, image_index, metadata, log,
                    exported, pdf_pages, ocr_index, page_image, ocr_results, bboxes_history,
                    bbox_index, match_index, ocr_pages_done, image_pages,
                    ocr_captions, budgetVars, saved, settings_file, created, layout_image_pages, regions_seen >>

\* ---------------------------------------------------------- the OCR pass
\* extract_visuals_by_ocr(..., image_pages=<no_images_pages of the layout
\* pass>) up to its page loop: the Document is added again and
\*     if image_pages: pdf_pages = image_pages
\*     else: pdf_pages = extract_pages(metadata.pdf_location)
\* An empty list is false: the pages are then those of the whole document.
DocumentPages(d) == [ i \in 1..d.npages |-> [ page_number |-> i ] ]

SelectOcrPages(pages_given, d) ==
    IF pages_given # <<>> THEN pages_given ELSE DocumentPages(d)

OcrCall ==
    /\ pc = "layout"
    /\ page_index > Len(pages)
    /\ mode = "layout_then_ocr"
    /\ pages' = <<>>
    /\ texts' = <<>>
    /\ visual' = <<>>
    /\ region_id' = <<>>
    /\ bbox_matches' = <<>>
    /\ set_caption_calls' = 0
    /\ image_pages' = no_image_pages
    /\ metadata' = add_document(metadata, pdf_index)
    /\ created' = created \cup {pdf_file_dir}
    /\ pdf_pages' = SelectOcrPages(no_image_pages, doc)
    /\ ocr_index' = 1
    \* `total=len(pdf_pages)`: the list given has a length; whether what
    \* extract_pages returns has one is the PDF library's choice
    /\ \/ /\ pc' = "ocr"
          /\ UNCHANGED exception
       \/ /\ no_image_pages = <<>>
          /\ pc' = "raised"
          /\ exception' = "TypeError"
    /\ UNCHANGED << inputVars, elements, pdf_index, pdf_document_counter, pdf_file_dir,
                    doc, no_image_pages, page_index, image_index, log,
                    exported, page_image, ocr_results, bboxes_history, bbox_index,
                    match_index, ocr_pages_done, ocr_captions, budgetVars,
                    saved, settings_file, layout_image_pages, regions_seen >>

CurrentOcrPage == pdf_pages[ocr_index]
OcrResult == ocr_results[1]
CurrentBox == OcrResult.bboxes[bbox_index]

\* top of `for page in pdf_pages`: the page is rendered, the OCR engine
\* reports its boxes and the four filters run
OcrPage ==
    /\ pc = "ocr"
    /\ ocr_index <= Len(pdf_pages)
    /\ page_image' = <<CurrentOcrPage.page_number>>
    /\ ocr_pages_done' =
            ocr_pages_done \cup {<<pdf_index, CurrentOcrPage.page_number>>}
    /\ \/ /\ ocr_results' = <<>>
          /\ bboxes_history' = <<>>
          /\ pc' = "crop"
          /\ UNCHANGED << bbox_index, regions_drawn >>
       \/ \E bboxes \in SubSeqsOf(OcrBoxCatalogue, MaxImgs) :
          \E text_bboxes \in SubSeqsOf(OcrTextCatalogue, MaxTexts) :
            /\ Len(FilterOcrBoxes(bboxes)) <= MaxRegions - regions_drawn
            /\ regions_drawn' = regions_drawn + Len(FilterOcrBoxes(bboxes))
            /\ bboxes_history' = BboxesHistory(bboxes)
            /\ ocr_results' =
                 << [ page_id |-> CurrentOcrPage.page_number,
                      bboxes |-> FilterOcrBoxes(bboxes),
                      text_bboxes |-> text_bboxes ] >>
            /\ IF Len(FilterOcrBoxes(bboxes)) > 0
               THEN bbox_index' = 1 /\ pc' = "ocr_box"
               ELSE pc' = "crop" /\ UNCHANGED bbox_index
    /\ UNCHANGED << inputVars, elements, exception, pdf_index, pdf_document_counter,
                    pdf_file_dir, doc, layoutVars, visual, bbox_matches,
                    metadata, log, exported, pdf_pages, ocr_index,
                    match_index, image_pages, ocr_captions, saved, settings_file, created, ghostVars, pages_drawn, regionVars >>

\* the text boxes of the page that distance-match the image box, in the
\* order of ocr_results[page_id]["text_bboxes"]
OcrMatches(box, text_bboxes) ==
    LET Matched(t) ==
            find_caption_by_distance(box, t.box, OcrOffset, CaptionDirection)
    IN  SelectSeq(text_bboxes, Matched)

\* top of `for bbox_id in ocr_results[page_id]["bboxes"]`: the Visual is
\* created and the matches are collected
OcrBox ==
    /\ pc = "ocr_box"
    /\ visual' = NewVisual(pdf_index, CurrentOcrPage.page_number,
                           CurrentBox.box, "px")
    /\ set_caption_calls' = 0
    /\ region_id' = <<pdf_index, CurrentOcrPage.page_number, CurrentBox.id>>
    /\ bbox_matches' = OcrMatches(CurrentBox.box, OcrResult.text_bboxes)
    /\ ocr_captions' = <<>>
    /\ match_index' = 1
    /\ pc' = "ocr_caption"
    /\ UNCHANGED << inputVars, elements, exception, pdf_index, pdf_document_counter,
                    pdf_file_dir, doc, layoutVars, metadata, log, exported,
                    pdf_pages, ocr_index, page_image, ocr_results, bboxes_history, bbox_index,
                    ocr_pages_done, image_pages, budgetVars, saved, settings_file, created,
                    layout_image_pages, regions_seen >>

\* an iteration that sets whatever was recognised, the empty text too
OcrCaptionStepUnguarded(v, ocr_caption) ==
    LET r == set_caption(v, ocr_caption)
    IN  [ visual |-> r.visual, raised |-> FALSE, warned |-> r.raised,
          calls |-> 1 ]

\* an iteration without the try / except around set_caption
OcrCaptionStepUncaught(v, ocr_caption) ==
    IF ocr_caption # <<>>
    THEN LET r == set_caption(v, ocr_caption)
         IN  [ visual |-> r.visual, raised |-> r.raised, warned |-> FALSE,
               calls |-> 1 ]
    ELSE [ visual |-> v, raised |-> FALSE, warned |-> FALSE, calls |-> 0 ]

\* one iteration of `for match in bbox_matches`: the text of the region is
\* recognised and, when it is not empty, set as the caption; a conflict is
\* caught and logged
OcrCaptionStep(v, ocr_caption) ==
    IF ocr_caption # <<>>
    THEN LET r == set_caption(v, ocr_caption)
         IN  [ visual |-> r.visual, raised |-> FALSE, warned |-> r.raised,
               calls |-> 1 ]
    ELSE [ visual |-> v, raised |-> FALSE, warned |-> FALSE, calls |-> 0 ]

OcrCaption ==
    /\ pc = "ocr_caption"
    /\ match_index <= Len(bbox_matches)
    /\ \E ocr_caption \in OcrStrings :
        LET r == OcrCaptionStep(visual, ocr_caption)
        IN  /\ ocr_captions' = Append(ocr_captions, ocr_caption)
            /\ visual' = r.visual
            /\ set_caption_calls' = set_caption_calls + r.calls
            /\ log' = IF r.warned
                      THEN Append(log, [ level |-> "warning",
                                         about |-> "caption",
                                         subject |-> region_id ])
                      ELSE log
            /\ pc' = IF r.raised THEN "raised" ELSE pc
            /\ exception' = IF r.raised THEN "Warning" ELSE exception
    /\ match_index' = match_index + 1
    /\ UNCHANGED << inputVars, elements, pdf_index, pdf_document_counter,
                    pdf_file_dir, doc, layoutVars, bbox_matches, metadata,
                    exported, pdf_pages, ocr_index, page_image, ocr_results, bboxes_history,
                    bbox_index, ocr_pages_done, image_pages, budgetVars,
                    saved, settings_file, created, layout_image_pages, regionVars >>

\* the file the OCR pass names for a box: f'{page_id}-{bbox_id}.png'
OcrFile(dir, page_id, bbox_id) ==
    [ dir |-> dir, file |-> <<"ocr", page_id, bbox_id>> ]

\* after the loop over the matches: the location is set and the Visual is
\* added, before the page's images are cropped
OcrLocate ==
    /\ pc = "ocr_caption"
    /\ match_index > Len(bbox_matches)
    /\ LET v == set_location(visual, OcrFile(pdf_file_dir, OcrResult.page_id,
                                             CurrentBox.id))
       IN  /\ visual' = v
           /\ metadata' = add_visual(metadata, v)
    /\ IF bbox_index < Len(OcrResult.bboxes)
       THEN bbox_index' = bbox_index + 1 /\ pc' = "ocr_box"
       ELSE pc' = "crop" /\ UNCHANGED bbox_index
    /\ UNCHANGED << inputVars, elements, exception, pdf_index, pdf_document_counter,
                    pdf_file_dir, doc, layoutVars, bbox_matches, log, exported,
                    pdf_pages, ocr_index, page_image, ocr_results, bboxes_history, match_index,
                    ocr_pages_done, image_pages, ocr_captions, budgetVars,
                    saved, settings_file, created, ghostVars, regionVars >>

\* ocr.crop_images_to_bbox(ocr_results, image_directory): one file per box
\* left in the results
CroppedFiles(results, dir) ==
    IF results = <<>> THEN {}
    ELSE { OcrFile(dir, results[1].page_id, results[1].bboxes[i].id) :
             i \in 1..Len(results[1].bboxes) }

\* an end of iteration without `del page_image`
OcrCropKeepsRaster ==
    /\ pc = "crop"
    /\ exported' = exported \cup CroppedFiles(ocr_results, pdf_file_dir)
    /\ ocr_results' = <<>>
    /\ bboxes_history' = <<>>
    /\ visual' = <<>>
    /\ region_id' = <<>>
    /\ bbox_matches' = <<>>
    /\ ocr_captions' = <<>>
    /\ set_caption_calls' = 0
    /\ ocr_index' = ocr_index + 1
    /\ pc' = "ocr"
    /\ UNCHANGED << inputVars, elements, exception, pdf_index, pdf_document_counter,
                    pdf_file_dir, doc, pages, no_image_pages, page_index,
                    texts, image_index, metadata, log, pdf_pages, page_image,
                    bbox_index, match_index, ocr_pages_done, image_pages,
                    budgetVars, saved, settings_file, created, layout_image_pages,
                    regions_seen >>

\* end of one iteration of `for page in pdf_pages`
OcrCrop ==
    /\ pc = "crop"
    /\ exported' = exported \cup CroppedFiles(ocr_results, pdf_file_dir)
    /\ page_image' = <<>>
    /\ ocr_results' = <<>>
    /\ bboxes_history' = <<>>
    /\ visual' = <<>>
    /\ region_id' = <<>>
    /\ bbox_matches' = <<>>
    /\ ocr_captions' = <<>>
    /\ set_caption_calls' = 0
    /\ ocr_index' = ocr_index + 1
    /\ pc' = "ocr"
    /\ UNCHANGED << inputVars, elements, exception, pdf_index, pdf_document_counter,
                    pdf_file_dir, doc, pages, no_image_pages, page_index,
                    texts, image_index, metadata, log, pdf_pages, bbox_index,
                    match_index, ocr_pages_done, image_pages, budgetVars,
                    saved, settings_file, created, layout_image_pages, regions_seen >>

\* an OCR loop that may be left before its last page
PipelineOcrDoneEarly ==
    /\ pc = "ocr"
    /\ mode = "pipeline"
    /\ pc' = "pdf_loop"
    /\ UNCHANGED << inputVars, elements, exception, pdf_index, pdf_document_counter,
                    pdf_file_dir, doc, layoutVars, visual, bbox_matches,
                    metadata, log, exported, ocrVars, budgetVars, saved, settings_file,
                    created, ghostVars, regionVars >>

\* the OCR loop of pipeline() ends: next PDF
PipelineOcrDone ==
    /\ pc = "ocr"
    /\ ocr_index > Len(pdf_pages)
    /\ mode = "pipeline"
    /\ pc' = "pdf_loop"
    /\ UNCHANGED << inputVars, elements, exception, pdf_index, pdf_document_counter,
                    pdf_file_dir, doc, layoutVars, visual, bbox_matches,
                    metadata, log, exported, ocrVars, budgetVars, saved, settings_file, created,
                    ghostVars, regionVars >>

\* extract_visuals_by_ocr returns to its caller, which counts the PDF
OcrReturn ==
    /\ pc = "ocr"
    /\ ocr_index > Len(pdf_pages)
    /\ mode = "layout_then_ocr"
    /\ pdf_document_counter' = pdf_document_counter + 1
    /\ pc' = "pdf_loop"
    /\ UNCHANGED << inputVars, elements, exception, pdf_index, pdf_file_dir, doc,
                    layoutVars, visual, bbox_matches, metadata, log, exported,
                    ocrVars, budgetVars, saved, settings_file, created, ghostVars, regionVars >>

\* ---------------------------------------------- the filters on their own
\* the boxes a filter call is handed: the result of the call before it
FilterInput == bboxes_history[Len(bboxes_history)].boxes

\* ocr.filter_bbox_by_size(bboxes, min_width=..., min_height=...): its
\* result becomes ocr_results[page_id]["bboxes"]
FilterSizeCall ==
    /\ mode = "filters"
    /\ Len(bboxes_history) <= MaxFilterCalls
    /\ bboxes_history' =
          Append(bboxes_history,
                 [ call |-> "filter_size",
                   boxes |-> filter_bbox_by_size(FilterInput, <<ImageMinWidth>>,
                                     <<ImageMinHeight>>, <<>>) ])
    /\ pc' = "filter_size"
    /\ UNCHANGED << inputVars, elements, exception, pdf_index, pdf_document_counter,
                    pdf_file_dir, doc, layoutVars, visual, bbox_matches,
                    metadata, log, exported, pdf_pages, ocr_index, page_image,
                    ocr_results, bbox_index, match_index, ocr_pages_done,
                    image_pages, ocr_captions, budgetVars, saved, settings_file, created,
                    ghostVars, regionVars >>

\* a call with a threshold that a box 20 times as wide as high is over
FilterRatioMaxCallInclusive ==
    /\ mode = "filters"
    /\ Len(bboxes_history) <= MaxFilterCalls
    /\ bboxes_history' =
          Append(bboxes_history,
                 [ call |-> "filter_ratio_max",
                   boxes |-> filter_bbox_by_size(FilterInput, <<>>, <<>>,
                                     <<MaxAspect - 1, 1, ">">>) ])
    /\ pc' = "filter_ratio_max"
    /\ UNCHANGED << inputVars, elements, exception, pdf_index, pdf_document_counter,
                    pdf_file_dir, doc, layoutVars, visual, bbox_matches,
                    metadata, log, exported, pdf_pages, ocr_index, page_image,
                    ocr_results, bbox_index, match_index, ocr_pages_done,
                    image_pages, ocr_captions, budgetVars, saved, settings_file, created,
                    ghostVars, regionVars >>

\* ocr.filter_bbox_by_size(bboxes, aspect_ratio=(20/1, ">"))
FilterRatioMaxCall ==
    /\ mode = "filters"
    /\ Len(bboxes_history) <= MaxFilterCalls
    /\ bboxes_history' =
          Append(bboxes_history,
                 [ call |-> "filter_ratio_max",
                   boxes |-> filter_bbox_by_size(FilterInput, <<>>, <<>>,
                                     <<MaxAspect, 1, ">">>) ])
    /\ pc' = "filter_ratio_max"
    /\ UNCHANGED << inputVars, elements, exception, pdf_index, pdf_document_counter,
                    pdf_file_dir, doc, layoutVars, visual, bbox_matches,
                    metadata, log, exported, pdf_pages, ocr_index, page_image,
                    ocr_results, bbox_index, match_index, ocr_pages_done,
                    image_pages, ocr_captions, budgetVars, saved, settings_file, created,
                    ghostVars, regionVars >>

\* a call that takes the comparison the other way round
FilterRatioMinCallInverted ==
    /\ mode = "filters"
    /\ Len(bboxes_history) <= MaxFilterCalls
    /\ bboxes_history' =
          Append(bboxes_history,
                 [ call |-> "filter_ratio_min",
                   boxes |-> filter_bbox_by_size(FilterInput, <<>>, <<>>,
                                     <<1, MaxAspect, ">">>) ])
    /\ pc' = "filter_ratio_min"
    /\ UNCHANGED << inputVars, elements, exception, pdf_index, pdf_document_counter,
                    pdf_file_dir, doc, layoutVars, visual, bbox_matches,
                    metadata, log, exported, pdf_pages, ocr_index, page_image,
                    ocr_results, bbox_index, match_index, ocr_pages_done,
                    image_pages, ocr_captions, budgetVars, saved, settings_file, created,
                    ghostVars, regionVars >>

\* ocr.filter_bbox_by_size(bboxes, aspect_ratio=(1/20, "<"))
FilterRatioMinCall ==
    /\ mode = "filters"
    /\ Len(bboxes_history) <= MaxFilterCalls
    /\ bboxes_history' =
          Append(bboxes_history,
                 [ call |-> "filter_ratio_min",
                   boxes |-> filter_bbox_by_size(FilterInput, <<>>, <<>>,
                                     <<1, MaxAspect, "<">>) ])
    /\ pc' = "filter_ratio_min"
    /\ UNCHANGED << inputVars, elements, exception, pdf_index, pdf_document_counter,
                    pdf_file_dir, doc, layoutVars, visual, bbox_matches,
                    metadata, log, exported, pdf_pages, ocr_index, page_image,
                    ocr_results, bbox_index, match_index, ocr_pages_done,
                    image_pages, ocr_captions, budgetVars, saved, settings_file, created,
                    ghostVars, regionVars >>

\* a call that hands back the boxes it was given
FilterContainedCallKeepsAll ==
    /\ mode = "filters"
    /\ Len(bboxes_history) <= MaxFilterCalls
    /\ bboxes_history' =
          Append(bboxes_history,
                 [ call |-> "filter_contained",
                   boxes |-> FilterInput ])
    /\ pc' = "filter_contained"
    /\ UNCHANGED << inputVars, elements, exception, pdf_index, pdf_document_counter,
                    pdf_file_dir, doc, layoutVars, visual, bbox_matches,
                    metadata, log, exported, pdf_pages, ocr_index, page_image,
                    ocr_results, bbox_index, match_index, ocr_pages_done,
                    image_pages, ocr_captions, budgetVars, saved, settings_file, created,
                    ghostVars, regionVars >>

\* ocr.filter_bbox_contained(bboxes)
FilterContainedCall ==
    /\ mode = "filters"
    /\ Len(bboxes_history) <= MaxFilterCalls
    /\ bboxes_history' =
          Append(bboxes_history,
                 [ call |-> "filter_contained",
                   boxes |-> filter_bbox_contained(FilterInput) ])
    /\ pc' = "filter_contained"
    /\ UNCHANGED << inputVars, elements, exception, pdf_index, pdf_document_counter,
                    pdf_file_dir, doc, layoutVars, visual, bbox_matches,
                    metadata, log, exported, pdf_pages, ocr_index, page_image,
                    ocr_results, bbox_index, match_index, ocr_pages_done,
                    image_pages, ocr_captions, budgetVars, saved, settings_file, created,
                    ghostVars, regionVars >>

\* --------------------------------------- the distance match on its own
\* a match that takes the gap on any side of the image box
FindCaptionCallAnySide ==
    /\ mode = "distance"
    /\ pc = "call"
    /\ bbox_matches' =
          IF \E direction \in Directions :
                find_caption_by_distance(args.image_box, args.text_box,
                                         args.offset, direction)
          THEN << args.text_box >>
          ELSE <<>>
    /\ pc' = "called"
    /\ UNCHANGED << inputVars, elements, exception, pdf_index, pdf_document_counter,
                    pdf_file_dir, doc, layoutVars, visual, metadata, log,
                    exported, ocrVars, budgetVars, saved, settings_file, created, ghostVars,
                    regionVars >>

\* match = find_caption_by_distance(img, _text, offset=..., direction=...);
\* if match: bbox_matches.append(match)
FindCaptionCall ==
    /\ mode = "distance"
    /\ pc = "call"
    /\ bbox_matches' =
          IF find_caption_by_distance(args.image_box, args.text_box,
                                      args.offset, args.direction)
          THEN << args.text_box >>
          ELSE <<>>
    /\ pc' = "called"
    /\ UNCHANGED << inputVars, elements, exception, pdf_index, pdf_document_counter,
                    pdf_file_dir, doc, layoutVars, visual, metadata, log,
                    exported, ocrVars, budgetVars, saved, settings_file, created, ghostVars,
                    regionVars >>

\* ------------------------------------------------------------ end of run
\* after the loop over PDF_FILES: the metadata pair and the settings
\* snapshot are written
SaveFiles ==
    /\ pc = "pdf_loop"
    /\ pdf_index = num_pdfs
    /\ saved' = saved \o <<"metadata.csv", "metadata.json", "settings.json">>
    /\ settings_file' = IF mode = "pipeline"
                        THEN [ layout |-> layout_settings, ocr |-> ocr_settings ]
                        ELSE [ layout |-> layout_settings ]
    /\ pc' = "done"
    /\ UNCHANGED << inputVars, elements, created, exception, pdf_index, pdf_document_counter,
                    pdf_file_dir, doc, layoutVars, visual, bbox_matches,
                    metadata, log, exported, ocrVars, budgetVars,
                    ghostVars, regionVars >>

Next ==
    \/ LayoutRunStart
    \/ PipelineStart
    \/ LayoutRunNextPdf
    \/ PipelineNextPdf
    \/ SortPage
    \/ SortFail
    \/ SortDone
    \/ LayoutPage
    \/ LayoutRegion
    \/ ExportOk
    \/ ExportFail
    \/ PipelineLayoutDone
    \/ LayoutRunReturn
    \/ OcrCall
    \/ OcrPage
    \/ OcrBox
    \/ OcrCaption
    \/ OcrLocate
    \/ OcrCrop
    \/ PipelineOcrDone
    \/ OcrReturn
    \/ SaveFiles
    \/ FilterSizeCall
    \/ FilterRatioMaxCall
    \/ FilterRatioMinCall
    \/ FilterContainedCall
    \/ FindCaptionCall

Spec == Init /\ [][Next]_vars

\* ---------------------------------------------------- one entry at a time
\* a run of pipeline()
InitPipeline == Init /\ mode = "pipeline"

NextPipeline ==
    \/ PipelineStart
    \/ PipelineNextPdf
    \/ SortPage
    \/ SortFail
    \/ SortDone
    \/ LayoutPage
    \/ LayoutRegion
    \/ ExportOk
    \/ ExportFail
    \/ PipelineLayoutDone
    \/ OcrPage
    \/ OcrBox
    \/ OcrCaption
    \/ OcrLocate
    \/ OcrCrop
    \/ PipelineOcrDone
    \/ SaveFiles

SpecPipeline == InitPipeline /\ [][NextPipeline]_vars

\* a run of Layout.run
InitLayoutRun == Init /\ mode = "layout_run"

NextLayoutRun ==
    \/ LayoutRunStart
    \/ LayoutRunNextPdf
    \/ SortPage
    \/ SortFail
    \/ SortDone
    \/ LayoutPage
    \/ LayoutRegion
    \/ ExportOk
    \/ ExportFail
    \/ LayoutRunReturn
    \/ SaveFiles

SpecLayoutRun == InitLayoutRun /\ [][NextLayoutRun]_vars

\* extract_visuals_by_layout on one PDF, then extract_visuals_by_ocr on the
\* same PDF with image_pages = the no_image_pages the first call returned
InitLayoutThenOcr == Init /\ mode = "layout_then_ocr"

NextLayoutThenOcr ==
    \/ LayoutRunStart
    \/ LayoutRunNextPdf
    \/ SortPage
    \/ SortFail
    \/ SortDone
    \/ LayoutPage
    \/ LayoutRegion
    \/ ExportOk
    \/ ExportFail
    \/ OcrCall
    \/ OcrPage
    \/ OcrBox
    \/ OcrCaption
    \/ OcrLocate
    \/ OcrCrop
    \/ OcrReturn
    \/ SaveFiles

SpecLayoutThenOcr == InitLayoutThenOcr /\ [][NextLayoutThenOcr]_vars

\* the filters of visarchpy.ocr, called on boxes of any kind
InitFilters == Init /\ mode = "filters"

NextFilters ==
    \/ FilterSizeCall
    \/ FilterRatioMaxCall
    \/ FilterRatioMinCall
    \/ FilterContainedCall

SpecFilters == InitFilters /\ [][NextFilters]_vars

\* find_caption_by_distance, called on boxes, offsets and directions of
\* any kind
InitDistance == Init /\ mode = "distance"

NextDistance == FindCaptionCall

SpecDistance == InitDistance /\ [][NextDistance]_vars

\* a run of Layout.run or of pipeline(), every step of which is taken when
\* it can be: the code is sequential and nothing stops it from outside
InitRun == Init /\ mode \in { "pipeline", "layout_run" }

NextRun == NextPipeline \/ NextLayoutRun

SpecRun == InitRun /\ [][NextRun]_vars /\ WF_vars(NextRun)

\* ================================================================= properties
Visuals == { metadata.visuals[i] : i \in 1..Len(metadata.visuals) }

PageOf(v) == <<v.document, v.document_page>>

\* C1: in pipeline() the OCR pass runs only on pages for which the layout
\* pass found no image region: a page with image regions is never rendered
\* for OCR and never gets a 'px' Visual, and no page has Visuals of both
\* passes.
C1_OcrOnlyWithoutLayoutImages ==
    mode = "pipeline" =>
        /\ ocr_pages_done \cap layout_image_pages = {}
        /\ \A v \in Visuals :
              v.bbox_units = "px" => PageOf(v) \notin layout_image_pages
        /\ \A v \in Visuals : \A w \in Visuals :
              PageOf(v) = PageOf(w) => v.bbox_units = w.bbox_units

\* a run of pipeline() that has met a page with image regions, has exported
\* one of them, and has a Visual of the OCR pass from another page
C1_Witness ==
    /\ mode = "pipeline"
    /\ layout_image_pages # {}
    /\ \E v \in Visuals : v.bbox_units = "pt"
    /\ \E v \in Visuals : v.bbox_units = "px"

\* the pages the OCR function was given, as (document, page number) pairs
GivenPages ==
    { <<pdf_index, image_pages[i].page_number>> : i \in 1..Len(image_pages) }

OcrStages == { "ocr", "ocr_box", "ocr_caption", "crop" }

\* C2: extract_visuals_by_ocr, given the no_image_pages list of the layout
\* pass as image_pages, iterates over exactly that list, renders no page
\* outside it and ends normally, whatever the list (the empty list too: no
\* page is rendered then and no Visual is added).
C2_OcrOverGivenPagesOnly ==
    mode = "layout_then_ocr" =>
        /\ pc \in OcrStages => pdf_pages = image_pages
        /\ ocr_pages_done \subseteq GivenPages
        /\ exception # "TypeError"
        /\ \A v \in Visuals : v.bbox_units = "px" => PageOf(v) \in GivenPages

\* ------------------------------------------------ text, as the specification says it
\* a line without its leading and trailing whitespace
Trimmed(line) ==
    LET Inked == { i \in 1..Len(line) : line[i] \notin Whitespace }
    IN  IF Inked = {} THEN <<>>
        ELSE SubSeq(line, CHOOSE i \in Inked : \A j \in Inked : i <= j,
                          CHOOSE i \in Inked : \A j \in Inked : j <= i)

\* the trimmed lines of a region, one after the other
RECURSIVE ConcatTrimmed(_)
ConcatTrimmed(lines) ==
    IF lines = <<>> THEN <<>>
    ELSE Trimmed(Head(lines)) \o ConcatTrimmed(Tail(lines))

HasKeyword(region) ==
    \E kw \in SettingsUsed.caption.keywords : Contains(Lower(GetText(region.lines)), kw)

\* the layout pass has just captioned the Visual of an image region
LayoutCaptioned == pc = "export" /\ visual # <<>>

\* C3: in the layout pass, with two or more distance-matches of which one
\* holds a keyword, the caption set is the text of a keyword-holding match
\* (its lines trimmed and concatenated), not the text of another match.
C3_CaptionOfKeywordRegion ==
    ( /\ LayoutCaptioned
      /\ Len(bbox_matches) >= 2
      /\ \E i \in 1..Len(bbox_matches) : HasKeyword(bbox_matches[i])
      /\ visual.caption # <<>> )
    => \E i \in 1..Len(bbox_matches) :
          /\ HasKeyword(bbox_matches[i])
          /\ visual.caption = <<ConcatTrimmed(bbox_matches[i].lines)>>

\* C4: in the layout pass, with two or more distance-matches, the Visual
\* has a caption if and only if one of the matches holds a keyword.
C4_CaptionIffKeyword ==
    (LayoutCaptioned /\ Len(bbox_matches) >= 2)
    => ( visual.caption # <<>>
         <=> \E i \in 1..Len(bbox_matches) : HasKeyword(bbox_matches[i]) )

\* C5: in the layout pass, with exactly one distance-match, the caption of
\* the Visual is the concatenation, in order, of the trimmed lines of that
\* match, keyword or not.
C5_SingleMatchCaption ==
    ( /\ visual # <<>>
      /\ visual.bbox_units = "pt"
      /\ Len(bbox_matches) = 1 )
    => visual.caption = <<ConcatTrimmed(bbox_matches[1].lines)>>

\* a region whose only match is the two-line text without keyword has been
\* captioned "ab" and exported
C5_Witness ==
    /\ visual # <<>>
    /\ visual.bbox_units = "pt"
    /\ Len(bbox_matches) = 1
    /\ ~HasKeyword(bbox_matches[1])
    /\ visual.caption = << <<"a", "b">> >>
    /\ visual.location # <<>>

\* --------------------------------------------- regions, as the properties see them
\* the layout pass is done with the image region of `visual`: its export
\* has returned or failed
LayoutRegionDone ==
    /\ pc \in { "region", "layout" }
    /\ visual # <<>>
    /\ visual.bbox_units = "pt"

\* the OCR pass is done with the box of `visual`: its matches were tried,
\* its location was set and it was added
OcrRegionDone ==
    /\ pc \in { "ocr_box", "crop" }
    /\ visual # <<>>
    /\ visual.bbox_units = "px"

\* the log records about a region
LogAbout(subject) == { i \in 1..Len(log) : log[i].subject = subject }

\* the Visuals the metadata holds for the region of v
AddedFor(v) ==
    { i \in 1..Len(metadata.visuals) :
        /\ metadata.visuals[i].document = v.document
        /\ metadata.visuals[i].document_page = v.document_page
        /\ metadata.visuals[i].bbox = v.bbox
        /\ metadata.visuals[i].bbox_units = v.bbox_units }

\* the page the OCR pass is working on
OcrPageOpen(page) ==
    /\ pc \in { "ocr_box", "ocr_caption", "crop" }
    /\ page = <<pdf_index, CurrentOcrPage.page_number>>

\* C6 as stated: a region without distance-match (either pass) gets no
\* set_caption call and no log record, and its Visual is exported and added
\* to the metadata without a caption.
C6_ZeroMatchAlwaysAdded ==
    ((LayoutRegionDone \/ OcrRegionDone) /\ bbox_matches = <<>>)
    => /\ set_caption_calls = 0
       /\ LogAbout(region_id) = {}
       /\ visual.caption = <<>>
       /\ \E i \in AddedFor(visual) : metadata.visuals[i] = visual

\* C6, amended: a region without distance-match gets no set_caption call,
\* no caption and no caption warning.  In the OCR pass its Visual is added,
\* nothing is logged, and its image is cropped when the page ends.  In the
\* layout pass its Visual is added, and nothing is logged, when the export
\* succeeds; when the export fails the Visual is not added and the one
\* record logged about it is the warning of the export.
C6_ZeroMatchUncaptioned ==
    /\ ((LayoutRegionDone \/ OcrRegionDone) /\ bbox_matches = <<>>)
       => /\ set_caption_calls = 0
          /\ visual.caption = <<>>
          /\ \A i \in LogAbout(region_id) : log[i].about # "caption"
    /\ (OcrRegionDone /\ bbox_matches = <<>>)
       => /\ LogAbout(region_id) = {}
          /\ \E i \in AddedFor(visual) : metadata.visuals[i] = visual
    /\ (LayoutRegionDone /\ bbox_matches = <<>>)
       => \/ /\ LogAbout(region_id) = {}
             /\ visual.location # <<>>
             /\ visual.location[1] \in exported
             /\ \E i \in AddedFor(visual) : metadata.visuals[i] = visual
          \/ /\ visual.location = <<>>
             /\ AddedFor(visual) = {}
             /\ Cardinality(LogAbout(region_id)) = 1
             /\ \A i \in LogAbout(region_id) :
                   log[i].level = "warning" /\ log[i].about = "export"
    /\ \A v \in Visuals :
          (v.bbox_units = "px" /\ ~OcrPageOpen(PageOf(v)))
          => v.location[1] \in exported

\* the OCR pass has added the Visual of a box without match, uncaptioned,
\* in a run whose layout pass failed to export an image region
C6_Witness ==
    /\ OcrRegionDone
    /\ bbox_matches = <<>>
    /\ visual.caption = <<>>
    /\ visual \in Visuals
    /\ \E i \in 1..Len(log) : log[i].about = "export"

\* what the OCR pass recognised, match after match, without the empty texts
Recognised == SelectSeq(ocr_captions, LAMBDA c : c # <<>>)

CaptionWarnings(subject) ==
    { i \in LogAbout(subject) :
        log[i].level = "warning" /\ log[i].about = "caption" }

\* C7: set_caption on a Visual that has a caption fails with the conflict
\* and leaves the caption as it is; so in the OCR pass, where every
\* non-empty recognised text of the matches is set in order, the caption is
\* the first non-empty recognised text, every later one is a conflict, and
\* the Visual added to the metadata carries that caption.
C7_FirstRecognisedCaption ==
    ( /\ pc \in { "ocr_box", "ocr_caption", "crop" }
      /\ visual # <<>>
      /\ visual.bbox_units = "px" )
    => /\ visual.caption =
             IF Recognised = <<>> THEN <<>> ELSE <<Recognised[1]>>
       /\ set_caption_calls = Len(Recognised)
       /\ Cardinality(CaptionWarnings(region_id)) =
             IF Recognised = <<>> THEN 0 ELSE Len(Recognised) - 1
       /\ OcrRegionDone
          => /\ Len(ocr_captions) = Len(bbox_matches)
             /\ \E i \in AddedFor(visual) : metadata.visuals[i] = visual

\* two matches were recognised as "x" and then "y": the Visual added has
\* the caption "x" and one conflict was logged
C7_Witness ==
    /\ OcrRegionDone
    /\ ocr_captions = << <<"x">>, <<"y">> >>
    /\ visual.caption = << <<"x">> >>
    /\ visual \in Visuals
    /\ Cardinality(CaptionWarnings(region_id)) = 1

\* C8: a conflict raised by set_caption is caught where it is raised and
\* logged as one warning; it never leaves the page loop.  The Visual is
\* located and added all the same, every match of the region is tried,
\* every box of the page gets its Visual and every page of the list is
\* rendered.
C8_ConflictAbsorbed ==
    /\ exception # "Warning"
    /\ ( /\ pc \in { "ocr_box", "ocr_caption", "crop" }
         /\ visual # <<>>
         /\ visual.bbox_units = "px" )
       => Cardinality(CaptionWarnings(region_id)) =
             set_caption_calls - (IF visual.caption # <<>> THEN 1 ELSE 0)
    /\ (OcrRegionDone /\ CaptionWarnings(region_id) # {})
       => /\ Len(ocr_captions) = Len(bbox_matches)
          /\ visual.location # <<>>
          /\ \E i \in AddedFor(visual) : metadata.visuals[i] = visual
    /\ (pc = "crop" /\ ocr_results # <<>>)
       => \A i \in 1..Len(OcrResult.bboxes) :
             \E v \in Visuals :
                /\ PageOf(v) = <<pdf_index, CurrentOcrPage.page_number>>
                /\ v.bbox_units = "px"
                /\ v.bbox = OcrResult.bboxes[i].box
    /\ (mode # "layout_run" /\ pc \in { "pdf_loop", "done" } /\ pdf_index > 0)
       => \A i \in 1..Len(pdf_pages) :
             <<pdf_index, pdf_pages[i].page_number>> \in ocr_pages_done

\* the run has ended normally, a caption conflict was logged on its way and
\* the metadata holds the captioned Visual of the OCR pass
C8_Witness ==
    /\ pc = "done"
    /\ \E i \in 1..Len(log) :
          log[i].level = "warning" /\ log[i].about = "caption"
    /\ \E v \in Visuals :
          v.bbox_units = "px" /\ v.caption # <<>> /\ v.location # <<>>

\* the image region a layout region id names
ImageNamed(name) ==
    CHOOSE i \in 1..Len(ImageCatalogue) : ImageCatalogue[i].name = name

\* the Visuals the metadata holds for a region of the layout pass
LayoutVisualsOf(rid) ==
    { i \in 1..Len(metadata.visuals) :
        /\ metadata.visuals[i].document = rid[1]
        /\ metadata.visuals[i].document_page = rid[2]
        /\ metadata.visuals[i].bbox = ImageCatalogue[ImageNamed(rid[3])].bbox
        /\ metadata.visuals[i].bbox_units = "pt" }

ExportWarnings(rid) ==
    { i \in LogAbout(rid) :
        log[i].level = "warning" /\ log[i].about = "export" }

\* C9: in the layout pass a region whose export failed with one of the
\* failures handled has no Visual in the metadata and exactly one export
\* warning in the log, and the pass goes on; a region whose export
\* succeeded has exactly one Visual, located at the exported file, and no
\* export warning; the metadata holds no other Visual of the layout pass.
C9_OneVisualPerExportedRegion ==
    /\ \A rid \in regions_seen :
          IF pc = "export" /\ rid = region_id
          THEN LayoutVisualsOf(rid) = {} /\ ExportWarnings(rid) = {}
          ELSE \/ /\ Cardinality(LayoutVisualsOf(rid)) = 1
                  /\ ExportWarnings(rid) = {}
                  /\ \A i \in LayoutVisualsOf(rid) :
                        /\ metadata.visuals[i].location # <<>>
                        /\ metadata.visuals[i].location[1] \in exported
               \/ /\ LayoutVisualsOf(rid) = {}
                  /\ Cardinality(ExportWarnings(rid)) = 1
    /\ \A i \in 1..Len(metadata.visuals) :
          metadata.visuals[i].bbox_units = "pt"
          => \E rid \in regions_seen : i \in LayoutVisualsOf(rid)
    /\ \/ exception = "none"
       \/ exception = "ValueError"
       \/ exception = "UnboundLocalError" /\ doc.npages = 0
    /\ (mode = "layout_run" /\ pc \in { "pdf_loop", "done" } /\ pdf_index > 0)
       => page_index > doc.npages \/ doc.fail_at # 0

\* a run has ended in which one region failed to export and another one
\* was exported: one warning, one Visual
C9_Witness ==
    /\ pc = "done"
    /\ \E rid \in regions_seen :
          LayoutVisualsOf(rid) = {} /\ Cardinality(ExportWarnings(rid)) = 1
    /\ \E rid \in regions_seen :
          Cardinality(LayoutVisualsOf(rid)) = 1 /\ ExportWarnings(rid) = {}

\* C10: a Visual has a location only once the image file of that location
\* has been written, in the layout pass and in the OCR pass: the metadata
\* never holds a Visual located at a file that does not exist.
C10_LocatedOnlyAfterExport ==
    /\ \A v \in Visuals :
          v.location # <<>> => v.location[1] \in exported
    /\ (visual # <<>> /\ visual.location # <<>>)
       => visual.location[1] \in exported

\* ------------------------------------------- the box filters, as specified
\* a box at least as wide and as high as the image settings ask
BigEnough(e) ==
    e.box[3] - e.box[1] >= 120 /\ e.box[4] - e.box[2] >= 120

\* width / height <= 20
NotTooWide(e) == e.box[3] - e.box[1] <= 20 * (e.box[4] - e.box[2])

\* width / height >= 1 / 20
NotTooHigh(e) == 20 * (e.box[3] - e.box[1]) >= e.box[4] - e.box[2]

\* e lies in no other box of the boxes given
InNoOther(e, boxes) ==
    \A i \in 1..Len(boxes) :
        boxes[i].box # e.box
        => ~( /\ boxes[i].box[1] <= e.box[1] /\ boxes[i].box[2] <= e.box[2]
              /\ e.box[3] <= boxes[i].box[3] /\ e.box[4] <= boxes[i].box[4] )

OcrPageStages == { "ocr_box", "ocr_caption", "crop" }

\* C11: in the OCR pass the filters run in the order size, maximal aspect
\* ratio (20/1, ">"), minimal aspect ratio (1/20, "<"), containment, each
\* on what the one before left, and the loop that matches captions and
\* makes Visuals runs over the boxes the four of them left and no other.
C11_FiltersInOrder ==
    (pc \in OcrPageStages /\ ocr_results # <<>>)
    => /\ Len(bboxes_history) = 5
       /\ bboxes_history[2] = SelectSeq(bboxes_history[1], BigEnough)
       /\ bboxes_history[3] = SelectSeq(bboxes_history[2], NotTooWide)
       /\ bboxes_history[4] = SelectSeq(bboxes_history[3], NotTooHigh)
       /\ bboxes_history[5] =
             SelectSeq(bboxes_history[4],
                       LAMBDA e : InNoOther(e, bboxes_history[4]))
       /\ OcrResult.bboxes = bboxes_history[5]
       /\ \A v \in Visuals :
             ( /\ v.bbox_units = "px"
               /\ PageOf(v) = <<pdf_index, CurrentOcrPage.page_number>> )
             => \E i \in 1..Len(bboxes_history[5]) :
                   bboxes_history[5][i].box = v.bbox
       /\ (visual # <<>> /\ visual.bbox_units = "px")
          => \E i \in 1..Len(bboxes_history[5]) :
                /\ bboxes_history[5][i].box = visual.bbox
                /\ bboxes_history[5][i].id = region_id[3]

\* a page on which the engine reported two boxes, the filters left one,
\* and that one has its Visual
C11_Witness ==
    /\ pc = "crop"
    /\ ocr_results # <<>>
    /\ Len(bboxes_history[1]) = 2
    /\ Len(bboxes_history[5]) = 1
    /\ \E v \in Visuals :
          /\ v.bbox_units = "px"
          /\ v.bbox = bboxes_history[5][1].box

\* the errors logged about the sorting of a PDF
ParseErrors(pdf) ==
    { i \in 1..Len(log) :
        /\ log[i].level = "error"
        /\ log[i].about = "parse"
        /\ log[i].subject = <<pdf>> }

\* C12: a failure of the page sorting (PDFSyntaxError, AssertionError,
\* TypeError) does not leave extract_visuals_by_layout: it is logged as one
\* error and the function returns; Layout.run is never stopped by it, takes
\* every PDF of the entry and writes the metadata.
C12_ParseFailureContained ==
    mode = "layout_run" =>
        /\ exception \notin ParseFailures
        /\ (pdf_index > 0 /\ pc # "sort")
           => Cardinality(ParseErrors(pdf_index)) =
                 (IF doc.fail_at # 0 THEN 1 ELSE 0)
        /\ pc \notin { "done", "raised" } => ENABLED NextLayoutRun
        /\ pc = "done"
           => /\ pdf_index = num_pdfs
              /\ Len(metadata.documents) = num_pdfs
              /\ Len(saved) = 3

\* Layout.run has ended: the sorting of its first PDF failed, the second
\* PDF was taken all the same and the files were written
C12_Witness ==
    /\ mode = "layout_run"
    /\ pc = "done"
    /\ num_pdfs = 2
    /\ ParseErrors(1) # {}
    /\ metadata.documents = <<1, 2>>
    /\ Len(saved) = 3

\* C13: a PDF whose page sorting failed is left out of the layout pass: no
\* image region of it is caption-matched or exported, and the layout pass
\* adds no Visual of it, wherever in the pages the failure was.
C13_FailedDocumentExcluded ==
    /\ \A rid \in regions_seen : ParseErrors(rid[1]) = {}
    /\ \A v \in Visuals :
          v.bbox_units = "pt" => ParseErrors(v.document) = {}

\* the page numbers of a list of pages
PageNumbers(list) == { list[i].page_number : i \in 1..Len(list) }

\* C14: after a failure of the page sorting the OCR pass does not stand in
\* for the PDF: the page the sorting failed on and the pages after it are
\* never put in no_image_pages and never rendered for OCR; no_image_pages
\* holds pages that were sorted and have no image region, and no other.
C14_NoOcrForUnsortedPages ==
    mode = "pipeline" =>
        /\ \A i \in 1..Len(no_image_pages) :
              /\ no_image_pages[i].images = <<>>
              /\ no_image_pages[i].page_number \in 1..doc.npages
              /\ doc.fail_at # 0
                 => no_image_pages[i].page_number < doc.fail_at
        /\ \A page \in ocr_pages_done :
              page[1] = pdf_index
              => /\ page[2] \in PageNumbers(no_image_pages)
                 /\ doc.fail_at # 0 => page[2] < doc.fail_at

\* the sorting of a PDF failed on its second page; its first page, without
\* image region, was rendered for OCR and the OCR loop of the PDF has ended
C14_Witness ==
    /\ mode = "pipeline"
    /\ pc = "pdf_loop"
    /\ doc.fail_at = 2
    /\ ParseErrors(pdf_index) # {}
    /\ <<pdf_index, 1>> \in ocr_pages_done

\* C15: Layout.run without settings (settings is None) ends with a
\* ValueError and nothing else: no output directory and no log file were
\* made, no PDF was taken, nothing was exported, logged or saved, and
\* nothing follows the exception.
C15_NoSettingsAbortsFirst ==
    (mode = "layout_run" /\ settings = "None")
    => /\ pc \in { "start", "raised" }
       /\ pc = "raised" => exception = "ValueError"
       /\ pc = "raised" => ~ENABLED NextLayoutRun
       /\ created = {}
       /\ pdf_index = 0
       /\ metadata = EmptyMetadata
       /\ log = <<>>
       /\ exported = {}
       /\ saved = <<>>

\* Layout.run without settings has raised its ValueError
C15_Witness ==
    /\ mode = "layout_run"
    /\ settings = "None"
    /\ pc = "raised"
    /\ exception = "ValueError"

LayoutStages == { "sort", "layout", "region", "export" }

\* the pages of the current PDF that were sorted
SortedPages ==
    IF doc.fail_at = 0 THEN 1..doc.npages ELSE 1..(doc.fail_at - 1)

\* the pages of the current PDF the layout loop has been at
LayoutVisited ==
    PageNumbers(no_image_pages)
    \cup { page[2] : page \in { q \in layout_image_pages : q[1] = pdf_index } }

\* in pipeline(): the OCR of a PDF starts when the layout loop has been at
\* every sorted page of it; while the next PDF is sorted and laid out the
\* OCR loop of the one before has been at all its pages and at none of the
\* new PDF; no document is added twice
C16_OnePassAfterTheOther ==
    mode = "pipeline" =>
        /\ pc \in OcrStages => LayoutVisited = SortedPages
        /\ pc \in LayoutStages
           => /\ \A i \in 1..Len(pdf_pages) :
                    <<pdf_index - 1, pdf_pages[i].page_number>>
                        \in ocr_pages_done
              /\ \A page \in ocr_pages_done : page[1] < pdf_index
              /\ ocr_results = <<>>
        /\ \A i \in 1..Len(metadata.documents) :
              \A j \in 1..Len(metadata.documents) :
                 metadata.documents[i] = metadata.documents[j] => i = j

\* where a loop is about to take up a page or a region (LayoutPage,
\* LayoutRegion, OcrPage, OcrBox is the next step), that page or region
\* was not taken up before
C16_EachOnce ==
    /\ (pc = "layout" /\ page_index <= Len(pages))
       => /\ <<pdf_index, CurrentPage.page_number>> \notin layout_image_pages
          /\ CurrentPage.page_number \notin PageNumbers(no_image_pages)
    /\ pc = "region"
       => <<pdf_index, CurrentPage.page_number, CurrentImage.name>>
             \notin regions_seen
    /\ (pc = "ocr" /\ ocr_index <= Len(pdf_pages))
       => <<pdf_index, CurrentOcrPage.page_number>> \notin ocr_pages_done
    /\ pc = "ocr_box"
       => \A v \in Visuals :
             ~( /\ v.document = pdf_index
                /\ v.document_page = CurrentOcrPage.page_number
                /\ v.bbox_units = "px"
                /\ v.bbox = CurrentBox.box )

\* C16: pipeline() works one document at a time: every page of a document
\* is laid out before the OCR of a page of it starts, the OCR of its pages
\* has ended when the sorting of the next document starts, and a
\* document, a page, an image region is taken up once per pass at most.
C16_Sequential ==
    /\ C16_OnePassAfterTheOther
    /\ mode = "pipeline" => C16_EachOnce

\* the second PDF is being sorted and the page of the first one has been
\* through the OCR loop
C16_Witness ==
    /\ mode = "pipeline"
    /\ pc = "sort"
    /\ pdf_index = 2
    /\ <<1, 1>> \in ocr_pages_done
    /\ \E v \in Visuals : v.bbox_units = "px" /\ v.document = 1

\* the boxes the four filters leave, as specified
Survivors(boxes) ==
    LET sized == SelectSeq(boxes, BigEnough)
        not_wide == SelectSeq(sized, NotTooWide)
        not_high == SelectSeq(not_wide, NotTooHigh)
    IN  SelectSeq(not_high, LAMBDA e : InNoOther(e, not_high))

\* the OCR loop is at the end of a page for which the engine returned
\* nothing, or none of whose boxes passes the filters
NothingFoundOnPage ==
    /\ pc = "crop"
    /\ ocr_results = <<>> \/ Survivors(bboxes_history[1]) = <<>>

\* C17: a page rendered for OCR for which the engine returns no result, or
\* whose boxes are all dropped by the filters, gets no Visual and no log
\* record, and the loop goes on to the next page.
C17_EmptyOcrPageSilent ==
    NothingFoundOnPage
    => /\ \A v \in Visuals :
             ~(v.bbox_units = "px"
               /\ PageOf(v) = <<pdf_index, CurrentOcrPage.page_number>>)
       /\ \A i \in 1..Len(log) :
             ~( /\ Len(log[i].subject) = 3
                /\ log[i].subject[1] = pdf_index
                /\ log[i].subject[2] = CurrentOcrPage.page_number
                /\ \E k \in 1..Len(OcrBoxCatalogue) :
                      log[i].subject[3] = OcrBoxCatalogue[k].id )
       /\ visual = <<>>
       /\ exception = "none"
       /\ ENABLED OcrCrop

\* the engine reported a box on the page and the filters dropped it
C17_Witness ==
    /\ pc = "crop"
    /\ ocr_results # <<>>
    /\ Len(bboxes_history[1]) > 0
    /\ OcrResult.bboxes = <<>>
    /\ log = <<>>
    /\ metadata.visuals = <<>>

\* the run is past its configuration: the loop over PDF_FILES was reached
PastConfiguration == pc \notin { "start", "raised" }

AllSaved == saved = <<"metadata.csv", "metadata.json", "settings.json">>

\* nothing is saved before the end of the loop over PDF_FILES, and what is
\* saved then is the CSV, the JSON and the settings file, once each
C18_SavedOnceAtTheEnd ==
    \/ saved = <<>> /\ pc # "done"
    \/ AllSaved /\ pc = "done" /\ pdf_index = num_pdfs

\* C18, as the specification says it: a run of Layout.run or pipeline()
\* that gets past its configuration writes the metadata pair (CSV, JSON)
\* and the settings snapshot once each, after all the PDFs of the entry,
\* and it does get there, whatever failed to parse or to export on the way.
C18_SavedOnceEventually ==
    /\ [](C18_SavedOnceAtTheEnd)
    /\ PastConfiguration ~> (pc = "done" /\ AllSaved)

\* the boxes the last filter call was handed, and the boxes it handed back
CallInput == bboxes_history[Len(bboxes_history) - 1].boxes
CallResult == bboxes_history[Len(bboxes_history)].boxes

Among(e, boxes) == \E i \in 1..Len(boxes) : boxes[i] = e

BoxesOf(boxes) == { boxes[i] : i \in 1..Len(boxes) }

\* box a contains box b and is another box than b.  Boxes of one extent
\* are taken as the same box here, which asks the least of the filter.
ContainsOther(a, b) == BoxContains(a.box, b.box) /\ a.box # b.box

\* as the specification says it: of two boxes of the set, one containing
\* the other, the contained one is absent from the result and the
\* containing one present, whatever else the set holds
C19_ContainerAlwaysStays ==
    pc = "filter_contained" =>
        \A a \in BoxesOf(CallInput) : \A b \in BoxesOf(CallInput) :
            ContainsOther(a, b) =>
                ~Among(b, CallResult) /\ Among(a, CallResult)

\* box c of the set takes box a out: it contains it and is larger, or has
\* the same extent and the smaller id
TakesOut(c, a) ==
    /\ c.id # a.id
    /\ BoxContains(c.box, a.box)
    /\ (c.box # a.box \/ IdRank(c.id) < IdRank(a.id))

\* C19: of two boxes A and B of the set handed to filter_contained, A
\* containing B (border included) and of another extent, B is absent from
\* the result; A is present unless a box of the set takes A out in turn,
\* as a larger box around A does.
C19_ContainedGoesOutermostStays ==
    pc = "filter_contained" =>
        \A a \in BoxesOf(CallInput) : \A b \in BoxesOf(CallInput) :
            ContainsOther(a, b) =>
                /\ ~Among(b, CallResult)
                /\ Among(a, CallResult) <=>
                       ~\E c \in BoxesOf(CallInput) : TakesOut(c, a)

\* filter_contained was handed three boxes, one in the other: only the
\* outermost is in the result
C19_Witness ==
    /\ pc = "filter_contained"
    /\ \E a, b, c \in BoxesOf(CallInput) :
          /\ ContainsOther(c, a)
          /\ ContainsOther(a, b)
          /\ Among(c, CallResult)
          /\ ~Among(a, CallResult)
          /\ ~Among(b, CallResult)

\* width/height of the box is over MaxAspect (the height is positive)
WiderThanMaxAspect(b) == Width(b) > MaxAspect * Height(b)

\* C20: the call filter_bbox_by_size(boxes, aspect_ratio=(20/1, ">"))
\* hands back the boxes it was given less those whose width/height is
\* strictly over 20; a box exactly 20 times as wide as high stays.
C20_MaxAspectStrict ==
    pc = "filter_ratio_max" =>
        /\ \A e \in BoxesOf(CallInput) :
              Among(e, CallResult) <=> ~WiderThanMaxAspect(e.box)
        /\ BoxesOf(CallResult) \subseteq BoxesOf(CallInput)

\* the call was handed a box exactly 20 times as wide as high and a wider
\* one: the first is in the result, the second is not
C20_Witness ==
    /\ pc = "filter_ratio_max"
    /\ \E e, f \in BoxesOf(CallInput) :
          /\ Height(e.box) > 0
          /\ Width(e.box) = MaxAspect * Height(e.box)
          /\ Among(e, CallResult)
          /\ WiderThanMaxAspect(f.box)
          /\ ~Among(f, CallResult)

\* the scenario's boxes: A (0,0,100,5), 20 times as wide as high, and
\* B (0,0,50,50)
ScenarioA == FilterBoxCatalogue[3]
ScenarioB == FilterBoxCatalogue[4]

\* the two aspect-ratio calls were made on A and B, (20/1, ">") first
RatioStepsOnScenario ==
    /\ mode = "filters"
    /\ Len(bboxes_history) = 3
    /\ bboxes_history[1].boxes = << ScenarioA, ScenarioB >>
    /\ bboxes_history[2].call = "filter_ratio_max"
    /\ bboxes_history[3].call = "filter_ratio_min"

\* as the specification says it: after the aspect-ratio calls on A and B
\* only B is left
C21_OnlyBRemains ==
    RatioStepsOnScenario => bboxes_history[3].boxes = << ScenarioB >>

\* C21: the aspect-ratio calls ((20/1, ">"), then (1/20, "<")) on
\* A = (0,0,100,5) and B = (0,0,50,50) hand back both boxes after each
\* call: A is exactly 20 times as wide as high, which is not over 20.
C21_BothRemain ==
    RatioStepsOnScenario =>
        /\ bboxes_history[2].boxes = << ScenarioA, ScenarioB >>
        /\ bboxes_history[3].boxes = << ScenarioA, ScenarioB >>

\* both aspect-ratio calls were made on A and B, and A is in the result
C21_Witness ==
    /\ RatioStepsOnScenario
    /\ Among(ScenarioA, bboxes_history[3].boxes)

\* the gap is within the offset, the offset taken in the unit of the boxes
\* (pt for an offset in mm: 1 mm is 72 / 25.4 pt)
GapWithin(gap, offset) ==
    IF offset[2] = "mm"
    THEN 254 * gap <= 720 * offset[1]
    ELSE gap <= offset[1]

CallMatched == bbox_matches # <<>>

\* C22: find_caption_by_distance returns a match exactly when the text box
\* is on the side of the image box the direction names and the gap d
\* between their nearest edges is 0 <= d <= offset (in the unit of the
\* boxes); a text box on another side does not match, whatever its gap.
C22_MatchIffInDirectionWithinOffset ==
    (mode = "distance" /\ pc = "called") =>
        ( CallMatched <=> /\ args.side = args.direction
                          /\ 0 <= args.gap
                          /\ GapWithin(args.gap, args.offset) )

\* the call was made with a text box on the side opposite to the direction,
\* its gap within the offset, and returned no match
C22_Witness ==
    /\ mode = "distance"
    /\ pc = "called"
    /\ args.direction = "down"
    /\ args.side = "up"
    /\ 0 <= args.gap
    /\ GapWithin(args.gap, args.offset)
    /\ ~CallMatched

\* C23: in the multi-match branch of the layout pass (two or more
\* distance-matches) a caption that is set is the text of the first
\* distance-matched region in page text order, its lines trimmed and
\* concatenated, whichever match held the keyword.
C23_MultiMatchCaptionOfFirst ==
    ( /\ visual # <<>>
      /\ visual.bbox_units = "pt"
      /\ Len(bbox_matches) >= 2
      /\ visual.caption # <<>> )
    => visual.caption = <<ConcatTrimmed(bbox_matches[1].lines)>>

\* a region with two matches, the first without keyword and the second
\* with one, has been captioned with the text of the first
C23_Witness ==
    /\ visual # <<>>
    /\ visual.bbox_units = "pt"
    /\ Len(bbox_matches) = 2
    /\ ~HasKeyword(bbox_matches[1])
    /\ HasKeyword(bbox_matches[2])
    /\ visual.caption = << <<"a", "b">> >>

\* the stages of one iteration of the OCR loop, after the page was rendered
InOcrIteration == pc \in { "ocr_box", "ocr_caption", "crop" }

\* C24: in the OCR pass the raster of a page is held from its rendering to
\* the end of the iteration of that page and no longer: one raster at most
\* is held at any point, none at the top of an iteration nor outside of
\* the loop, with or without OCR result or surviving box on the pages.
C24_OneRasterAtMost ==
    /\ Len(page_image) <= 1
    /\ InOcrIteration => page_image = << CurrentOcrPage.page_number >>
    /\ ~InOcrIteration => page_image = <<>>

\* the OCR loop is at its second page: the first page, which had no OCR
\* result, is done and its raster is released
C24_Witness ==
    /\ pc = "ocr"
    /\ ocr_index = 2
    /\ Len(pdf_pages) = 2
    /\ ocr_pages_done # {}
    /\ metadata.visuals = <<>>
    /\ page_image = <<>>

\* the function is at a document of zero pages, or has left it
AtZeroPageDocument == pdf_index >= 1 /\ doc.npages = 0

\* C25, as the code is expected to behave: on a document of zero pages
\* (no page sorted, no parse error) extract_visuals_by_layout returns
\* with no Visual added and no page for the OCR pass, and no exception
\* leaves it.
C25_ZeroPagesReturnsNormally ==
    AtZeroPageDocument =>
        /\ pc # "raised"
        /\ exception = "none"
        /\ no_image_pages = <<>>
        /\ \A v \in Visuals : v.document # pdf_index

\* 'pdf-' and n in three digits
DirName(n) == << "pdf-", (n \div 100) % 10, (n \div 10) % 10, n % 10 >>

\* the sub-directories made for the PDFs of the entry so far
PdfDirs == created \ OutputDirAndLog

\* C26, as the specification says it: the n-th PDF of an entry is given
\* the sub-directory pdf-00n (n in three digits), in Layout.run and in
\* pipeline(): the numbers are consecutive from 1 and no two PDFs share a
\* directory.
C26_ConsecutiveDirs ==
    pdf_index >= 1 =>
        /\ pdf_file_dir = DirName(pdf_index)
        /\ PdfDirs = { DirName(n) : n \in 1..pdf_index }

\* the pages of the current PDF the layout loop has taken up
PagesTakenUp ==
    { k \in 1..Len(pages) :
        \/ k < page_index /\ pc \in { "layout", "region", "export" }
        \/ k = page_index /\ pc \in { "region", "export" } }

\* C27: a page is on no_image_pages exactly when the layout loop has taken
\* it up and its image list is empty, whatever the exports did: a page
\* with image regions is never on the list and never goes through the OCR
\* loop of pipeline(), also when all its exports failed; no page is on
\* the list twice.
C27_OcrCandidateIffNoImages ==
    /\ \A i \in 1..Len(no_image_pages) : no_image_pages[i].images = <<>>
    /\ \A i \in 1..Len(no_image_pages) : \A j \in 1..Len(no_image_pages) :
          no_image_pages[i].page_number = no_image_pages[j].page_number
          => i = j
    /\ \A k \in 1..Len(pages) :
          pages[k].page_number \in PageNumbers(no_image_pages)
          <=> (k \in PagesTakenUp /\ pages[k].images = <<>>)
    /\ mode = "pipeline" => ocr_pages_done \cap layout_image_pages = {}

\* pipeline() is in the OCR loop of a PDF with a page whose image regions
\* all failed to export: the page gave no Visual and is not on the list
C27_Witness ==
    /\ mode = "pipeline"
    /\ pc = "ocr"
    /\ no_image_pages # <<>>
    /\ \E page \in layout_image_pages :
          /\ page[1] = pdf_index
          /\ page[2] \notin PageNumbers(no_image_pages)
          /\ \A v \in Visuals : PageOf(v) # page
    /\ \E i \in 1..Len(log) : log[i].about = "export"

\* C28: in a run of Layout.run or pipeline() every PDF taken up has one
\* Document in the metadata, added before its pages are sorted: the n-th
\* Document is that of the n-th PDF, also when its parsing fails, and no
\* Visual is of a page at or after the one the parsing failed at.
C28_OneDocumentPerPdf ==
    /\ metadata.documents = [ n \in 1..pdf_index |-> n ]
    /\ \A v \in Visuals :
          (v.document = pdf_index /\ doc.fail_at > 0)
          => v.document_page < doc.fail_at

\* a run of two PDFs has ended, the parsing of one failed: two Documents
\* are recorded
C28_Witness ==
    /\ pc = "done"
    /\ pdf_index = 2
    /\ \E i \in 1..Len(log) : log[i].about = "parse"
    /\ Len(metadata.documents) = 2

\* the log records about caption conflicts of image regions of the layout
\* pass
LayoutCaptionWarnings ==
    { i \in 1..Len(log) :
        /\ log[i].about = "caption"
        /\ log[i].subject \in regions_seen }

\* C29: in the layout pass set_caption is called once at most on a Visual,
\* so the caption conflict never arises there: no conflict leaves the
\* single-match branch, whose call is not guarded, and none is logged by
\* the multi-match branch.
C29_LayoutCaptionSetOnce ==
    /\ (visual # <<>> /\ visual.bbox_units = "pt") => set_caption_calls <= 1
    /\ exception # "Warning"
    /\ LayoutCaptionWarnings = {}

\* a Visual of the layout pass was captioned by the single-match branch:
\* one call, no conflict
C29_Witness ==
    /\ mode = "layout_run"
    /\ pc = "export"
    /\ Len(bbox_matches) = 1
    /\ visual.caption # <<>>
    /\ set_caption_calls = 1
    /\ exception = "none"

\* Layout.run has written its settings snapshot
SnapshotWritten ==
    /\ mode = "layout_run"
    /\ pc = "done"
    /\ "settings.json" \in { saved[i] : i \in 1..Len(saved) }

\* C30: the settings snapshot written by Layout.run records the settings the
\* run was executed with, the settings object given to the pipeline and
\* passed to extract_visuals_by_layout, whatever that object holds.
C30_SnapshotIsSettingsUsed ==
    SnapshotWritten => settings_file = [ layout |-> SettingsUsed ]

====
